---- MODULE Spec2Model ----
(***************************************************************************)
(* Model of the aster-tools hedging engine.                                *)
(*                                                                         *)
(*  - SpecHedge : HedgeTool.loopHedge of src/index.js (two accounts): the  *)
(*    rehang loop with streaming hedge, validateAndFixHedgeQuantity, the   *)
(*    hold, and smartClosePositions, run against an exchange that fills    *)
(*    open LIMIT orders at its own pace.                                   *)
(*  - SpecThree : ThreeAccountHedgeTool.loopHedge of src/unnamed/part_001  *)
(*    interleaved with the SIGINT handler of runAutomatedFlow.             *)
(*                                                                         *)
(* Quantities are integers in units of 0.0001 (so 0.001 is 10 and 0.005 is *)
(* 50); the exchange fills in multiples of the 0.001 step.                 *)
(***************************************************************************)
EXTENDS Integers, Sequences, FiniteSets, TLC

----------------------------------------------------------------------------
(* Bounds and inputs *)

\* number of cycles of the endless while(true) loop that are explored
MaxCycles == 1
\* config.maxRehangAttempts of loopHedge (default 10), explored with a small value
MaxRehangAttempts == 2
\* maxRehangAttempts of smartClosePositions (default 5), explored with a small value
MaxCloseRehang == 1
\* number of passes of while (true) of ThreeAccountHedgeTool.loopHedge that are explored
MaxLoopPasses == 2
\* number of SIGINT signals delivered to the process
MaxSignals == 2
\* api.quantity values explored (0.005)
ConfigQuantities == {50}
\* random multiples (percent) drawn by getRandomFloat(baseQuantity, 1, 1.3, true)
RandomMultiples == {100, 120}
\* sizes (in 0.0001 units) by which the exchange may fill an open order in one go
FillSteps == {30}

\* maxWaitTime of a monitoring call, in seconds (default 300), explored with a small value
MaxWaitTime == 8
\* seconds one getOrderStatus request (with the callback it triggers) may take
PollLatencies == {1, 2}
\* executedQty values a poll may answer (in 0.0001 units)
PolledQuantities == {0, 10, 20}

\* api.requestRetries (maxRetries of makeRequest, default 3), explored with a small value
RequestRetries == 2
\* number of makeRequest calls that are explored
MaxCalls == 2
\* time between two makeRequest calls, in ticks of 20 seconds
ElapsedBetweenCalls == {0, 4}
\* ticks of 20 seconds one retry delay (at most 15.2 s) may add to Date.now()
DelayTicks == {0, 1}
\* values of serverTime - Date.now() the exchange may show
ServerOffsets == {0, 2}
\* 60_000 ms, the age after which the clock is synchronised again, in ticks of 20 seconds
StaleAfter == 3

\* number of passes of while (true) of HedgeTool.loopMarketHedge that are explored
MaxMarketCycles == 2
\* api.quantity values (in 0.0001 units) loopMarketHedge is called with
MarketQuantities == {10, 50, 70}

\* api.quantity values (in 0.0001 units) smartHedgeOrder is called with
SmartQuantities == {30, 50, 70, 90}

\* api.requestRetries of the calls whose retry delays are explored
BackoffRetries == 6
\* api.requestRetryDelayMs values explored, in ms
ConfiguredDelays == {-5, 10, 50, 800, 5000, 20000}
\* values of Math.floor(Math.random() * 200) explored
Jitters == {0, 100, 199}
\* Math.min(15_000, ...): the largest retry delay before jitter, in ms
DelayCap == 15000
\* the base delay used when api.requestRetryDelayMs is not a finite number, in ms
DefaultBaseDelay == 800
\* Math.max(50, api.requestRetryDelayMs): the smallest base delay, in ms
MinBaseDelay == 50

\* positionAmt values (in 0.0001 units) account1 may hold when the positions are validated
HeldLong == {0, 40, 42, 60, 100}
\* positionAmt values (in 0.0001 units) account2 may hold when the positions are validated
HeldShort == {0, -30, -35, -90, -100}

\* values of Math.random() * (max - min) + min in generateRandomQuantity, in
\* millionths of a unit (api.minQuantity 0.001, api.maxQuantity 0.01)
DrawnQuantities == {1000, 1400, 2700, 4600, 6800, 8900, 9990}
\* api.price, the reference price, in thousands of USDT (0: not configured)
ReferencePrices == {0, 100, 115, 300}
\* api.maxPositionValue, in USDT
MaxPositionValues == {1000, 2000}
\* values of ratio1 = Math.random() * (maxRatio - minRatio) + minRatio, in thousandths
SplitRatios == {200, 333, 600, 800}
\* minQuantity of generateQuantityDistribution (0.001), in millionths of a unit
MinShare == 1000

\* what getPositions(symbol) may answer to closePosition: the positionAmt of each
\* entry (in 0.0001 units); one entry in one-way mode, two in hedge mode
PositionLists == {<<>>, <<0>>, <<30>>, <<-30>>, <<35>>, <<0, -20>>, <<30, -20>>}
\* the quantity argument of closePosition (0: null, no override)
QuantityOverrides == {0, 10}

\* tolerance of validateAndFixHedgeQuantity (0.001)
Tolerance == 10
\* one unit of the third decimal place kept by toFixed(3)
QtyStep == 10

----------------------------------------------------------------------------
(* Pure helpers *)

Abs(x) == IF x < 0 THEN -x ELSE x

\* HedgeTool.formatQuantity: parseFloat(quantity.toFixed(3)), rounding the
\* magnitude to the nearest multiple of 0.001 (half away from zero)
formatQuantity(q) ==
    IF q = 0 THEN 0
    ELSE IF q > 0 THEN ((q + (QtyStep \div 2)) \div QtyStep) * QtyStep
    ELSE -(((-q + (QtyStep \div 2)) \div QtyStep) * QtyStep)

\* a reconciler without tolerance: any difference is corrected
ExceedsAnyDifference(quantityDiff) == {quantityDiff > 0}

\* the outcomes of (quantityDiff > tolerance) in binary floating point: when the
\* decimal difference equals the tolerance the computed difference lies on
\* either side of the double 0.001 (0.004 - 0.003 gives 0.001, 0.01 - 0.009
\* gives 0.0010000000000000009)
ExceedsTolerance(quantityDiff) == IF quantityDiff = Tolerance THEN BOOLEAN ELSE {quantityDiff > Tolerance}

\* HedgeTool.getRandomFloat(baseValue, 1, 1.3, true) for a drawn multiple (percent)
getRandomFloat(baseValue, multiple) == formatQuantity((baseValue * multiple) \div 100)

OpenStatuses == {"NEW", "PARTIALLY_FILLED"}
FailedStatuses == {"CANCELED", "REJECTED", "EXPIRED"}

RECURSIVE SumExec(_, _)
\* total executed quantity of the LIMIT orders of account a in os
SumExec(os, a) ==
    IF os = <<>> THEN 0
    ELSE (IF Head(os).acct = a THEN Head(os).exec ELSE 0) + SumExec(Tail(os), a)

NoResult == [success |-> FALSE, filled |-> FALSE, timeout |-> FALSE, totalExecuted |-> 0]

\* no getOrderStatus answer is being handled by the callback
NoAnswer == [lat |-> 0, status |-> "none", executedQty |-> 0]

----------------------------------------------------------------------------
VARIABLES
    \* ---- HedgeTool.loopHedge (src/index.js) ----
    pc,               \* position of loopHedge
    cycle,            \* cycle counter
    apiQuantity,      \* api.quantity (the shared config object)
    baseQuantity,     \* baseQuantity captured when loopHedge is entered
    quantity,         \* quantity drawn for this cycle
    orderFilled, totalHedged, rehangAttempts,
    limitOrder,       \* index in orders of the LIMIT order being monitored
    orders,           \* LIMIT orders placed in this cycle, as the exchange holds them
    lastExecutedQty, totalExecuted, polled,   \* locals of monitorOrderWithRealTimeExecution
    monitorResult,
    pos1, pos2,       \* positionAmt of account1 / account2 on the exchange
    helperSold,       \* quantity really sold on account2 while opening this cycle
    hedgeFailed,      \* some helper MARKET order of this cycle was rejected
    mktOrders,        \* accounts on which a MARKET order was submitted in the opening phase
    cancelled,        \* indexes of orders for which a cancel request was sent
    \* ---- smartClosePositions locals ----
    pos1Amount, pos2Amount, totalClosed1, totalClosed2, remainingAmount,
    closeAttempts,
    heldAtClose,      \* accounts that held a position when smartClosePositions was entered
    closeIssued,      \* accounts for which smartClosePositions submitted a closing order
    \* ---- ThreeAccountHedgeTool.loopHedge and the SIGINT handler (src/unnamed/part_001) ----
    tpc,              \* the await at which loopHedge is suspended
    tcycle,           \* cycle counter of loopHedge
    isClosing,        \* tool.isClosing
    exitRequested,    \* tool.exitRequested
    exiting,          \* the handler's closure variable
    hpc,              \* the await at which the SIGINT handler is suspended ("idle": not running)
    exited,           \* process.exit(0) was called
    signals,          \* SIGINT signals delivered so far
    handlerCancels,   \* cancelAllOpenOrders sequences started by the handler
    handlerUnwinds,   \* closeAllPositions sequences started by the handler
    awaitPending,     \* the await loopHedge was suspended at when the handler started is still pending
    resumed,          \* a pass of the loop was begun from the catch block
    \* ---- one call of monitorOrderStatus / monitorOrderWithRealTimeExecution ----
    mfn,              \* the monitoring function that was called ("none": not called yet)
    mpc,              \* position inside the monitoring call
    clock,            \* Date.now() - startTime, in seconds
    mLastExecutedQty, \* lastExecutedQty of the call
    mTotalExecuted,   \* totalExecuted of the call
    mResult,          \* the object the call returned
    pollIssuedLate,   \* a getOrderStatus was issued with clock >= maxWaitTime
    sawFilled,        \* a poll of the call answered FILLED
    sawFailed,        \* a poll of the call answered CANCELED, REJECTED or EXPIRED
    polledAfterTerminal, \* a poll was issued after a terminal status had been answered
    pollErrors,       \* a getOrderStatus of the call threw
    cumDelivered,     \* last cumulative total passed to onPartialFill
    sumDeltas,        \* sum of the deltas passed to onPartialFill
    cumDecreased,     \* a cumulative total smaller than an earlier one was passed
    cbThrew,          \* onPartialFill threw during the call
    maxPolled,        \* largest executedQty answered by a poll that exceeded the ones before
    deliveries,       \* number of times onPartialFill was invoked
    cbInFlight,       \* an onPartialFill invocation (its helper sell) has not settled yet
    cbSettled,        \* number of onPartialFill invocations that returned or threw
    mAnswer,          \* the getOrderStatus answer whose new fill the callback is handling
    \* ---- AsterFuturesAPI.makeRequest (src/unnamed/part_001) ----
    rpc,              \* position inside makeRequest ("idle": no call in progress)
    calls,            \* makeRequest calls made so far
    needAuth,         \* needAuth of the call
    attempt,          \* attempt of the call
    lastError,        \* lastError of the call
    dateNow,          \* Date.now(), in ticks of 20 seconds
    timeOffsetMs,     \* this.timeOffsetMs
    lastTimeSyncAt,   \* this.lastTimeSyncAt (0: never synchronised)
    serverOffset,     \* serverTime - Date.now() as the exchange would answer now
    stampOffset,      \* offset inside the timestamp of the request that was built last
    requestsSent,     \* requests of the call handed to nodeFetch
    retryDelays,      \* retry delays the call has slept
    alerts,           \* sendTelegramAlert invocations of the call
    all500,           \* every answer the call got so far was an HTTP 500
    skewPending,      \* the last attempt failed with a timestamp-skew error and no retry was sent yet
    syncsSinceSkew,   \* syncTime calls since that failure
    syncsBeforeRetry, \* syncTime calls between the last skew failure and its retry (-1: none yet)
    syncedBeforeSend, \* the proactive syncTime of the attempt in flight succeeded
    \* ---- one call of HedgeTool.validateAndFixHedgeQuantity (src/index.js) ----
    vpc,              \* position inside the call ("idle": not called yet)
    xPos1, xPos2,     \* positionAmt of account1 / account2 on the exchange
    vQueried,         \* both getPositions of the call were fulfilled
    vPos1Amount, vPos2Amount, \* pos1Amount / pos2Amount read by the call
    fixOrders,        \* corrective MARKET orders the call submitted
    vRequeries,       \* printPositionStatus calls made by the call
    \* ---- one call of generateQuantityDistribution (src/unnamed/part_001) ----
    spc,              \* position inside the call ("idle": not called yet)
    sQuantity,        \* quantity drawn by generateRandomQuantity, in millionths of a unit
    sPrice,           \* api.price, in thousands of USDT
    sMaxValue,        \* api.maxPositionValue, in USDT
    mainQuantity,     \* the value generateRandomQuantity returned, in thousandths of a unit
    sRatio,           \* ratio1, in thousandths
    quantities,       \* the two helper shares returned, in thousandths of a unit
    \* ---- one call of AsterFuturesAPI.closePosition ----
    kpc,              \* position inside the call ("idle": not called yet)
    kClient,          \* the class the client is an instance of: "index.js" or "part_001"
    kPositions,       \* positionAmt of the entries getPositions answers
    kQuantity,        \* the quantity argument (0: null)
    kOrders,          \* order parameters handed to placeOrder by the call
    kResult,          \* what the call returned: "none" (nothing yet), "null" or "order"
    kError,           \* the error the call threw ("none": none)
    \* ---- one Promise.allSettled batch over the accounts ----
    bpc,              \* "idle", "awaiting" (the coordinator awaits the batch) or "proceeded"
    bKind,            \* the method called on each account of the batch
    bOutcome,         \* per account: "none" (not in the batch), "pending", "fulfilled", "rejected"
    bResults,         \* the results array the coordinator went on with
    \* ---- one getOrderBook call ----
    opc,              \* "idle", "sent" (the depth request is out) or "returned"
    oClient,          \* the file whose AsterFuturesAPI is called
    oLimit,           \* the limit parameter of the call
    oSent,            \* the limit sent to /fapi/v1/depth (0: none sent)
    \* ---- the retry delays of one makeRequest call (src/unnamed/part_001) ----
    dpc,              \* "idle", "failed" (an attempt of the call failed), "delay" or "ended"
    dBase,            \* baseDelayMs of the call
    dAttempt,         \* attempt of the call
    delays,           \* the retry delays of the call so far: attempt, jitter and delay of each
    \* ---- HedgeTool.loopMarketHedge (src/index.js) ----
    mhpc,             \* the await at which loopMarketHedge is suspended ("idle": not called)
    mhCycle,          \* cycle of loopMarketHedge
    mhQuantity,       \* quantity of the call
    mhPos1,           \* position of account1 on the exchange
    mhPos2,           \* position of account2 on the exchange
    longResult,       \* status of longResult in the last cycle that sent orders
    shortResult,      \* status of shortResult in the last cycle that sent orders
    \* ---- HedgeTool.smartHedgeOrder (src/index.js) ----
    shpc,             \* the await at which smartHedgeOrder is suspended ("idle": not called)
    shQuantity,       \* quantity of the call
    shOrder,          \* the primary LIMIT order on the exchange: status, origQty and executedQty
    shResult,         \* monitorResult of the call
    shSuccess,        \* success of the object the call returned
    shHedged,         \* quantity account2 sold at market in the call
    shLateFill        \* quantity the primary order filled after the call had returned

hedgeVars == <<pc, cycle, apiQuantity, baseQuantity, quantity, orderFilled,
               totalHedged, rehangAttempts, limitOrder, orders, lastExecutedQty,
               totalExecuted, polled, monitorResult, pos1, pos2, helperSold,
               hedgeFailed, mktOrders, cancelled, pos1Amount, pos2Amount,
               totalClosed1, totalClosed2, remainingAmount, closeAttempts,
               heldAtClose, closeIssued>>

threeVars == <<tpc, tcycle, isClosing, exitRequested, exiting, hpc, exited, signals,
               handlerCancels, handlerUnwinds, awaitPending, resumed>>

monitorVars == <<mfn, mpc, clock, mLastExecutedQty, mTotalExecuted, mResult,
                 pollIssuedLate, sawFilled, sawFailed, polledAfterTerminal, pollErrors,
                 cumDelivered, sumDeltas, cumDecreased, cbThrew, maxPolled,
                 deliveries, cbInFlight, cbSettled, mAnswer>>

requestVars == <<rpc, calls, needAuth, attempt, lastError, dateNow, timeOffsetMs,
                 lastTimeSyncAt, serverOffset, stampOffset, requestsSent, retryDelays,
                 alerts, all500, skewPending, syncsSinceSkew, syncsBeforeRetry,
                 syncedBeforeSend>>

reconcileVars == <<vpc, xPos1, xPos2, vQueried, vPos1Amount, vPos2Amount, fixOrders, vRequeries>>

sizingVars == <<spc, sQuantity, sPrice, sMaxValue, mainQuantity, sRatio, quantities>>

closeCallVars == <<kpc, kClient, kPositions, kQuantity, kOrders, kResult, kError>>

batchVars == <<bpc, bKind, bOutcome, bResults>>

bookVars == <<opc, oClient, oLimit, oSent>>

backoffVars == <<dpc, dBase, dAttempt, delays>>

\* the state of single calls made outside the two loops
marketVars == <<mhpc, mhCycle, mhQuantity, mhPos1, mhPos2, longResult, shortResult>>

smartVars == <<shpc, shQuantity, shOrder, shResult, shSuccess, shHedged, shLateFill>>

unitVars == <<reconcileVars, sizingVars, closeCallVars, batchVars, bookVars,
             backoffVars,
             marketVars,
             smartVars>>

\* the state of the exchange client (AsterFuturesAPI), outside the two loops
clientVars == <<monitorVars, requestVars, unitVars>>

vars == <<hedgeVars, threeVars, clientVars>>

----------------------------------------------------------------------------
(* HedgeTool.loopHedge *)

HedgeInit ==
    /\ pc = "cycleStart"
    /\ cycle = 0
    /\ apiQuantity \in ConfigQuantities
    /\ baseQuantity = apiQuantity
    /\ quantity = 0
    /\ orderFilled = FALSE
    /\ totalHedged = 0
    /\ rehangAttempts = 0
    /\ limitOrder = 0
    /\ orders = <<>>
    /\ lastExecutedQty = 0
    /\ totalExecuted = 0
    /\ polled = FALSE
    /\ monitorResult = NoResult
    /\ pos1 = 0
    /\ pos2 = 0
    /\ helperSold = 0
    /\ hedgeFailed = FALSE
    /\ mktOrders = {}
    /\ cancelled = {}
    /\ pos1Amount = 0
    /\ pos2Amount = 0
    /\ totalClosed1 = 0
    /\ totalClosed2 = 0
    /\ remainingAmount = 0
    /\ closeAttempts = 0
    /\ heldAtClose = {}
    /\ closeIssued = {}

closeVars == <<pos1Amount, pos2Amount, totalClosed1, totalClosed2,
               remainingAmount, closeAttempts, heldAtClose, closeIssued>>
monVars == <<limitOrder, lastExecutedQty, totalExecuted, polled, monitorResult>>

\* the locals of a finished monitor call and its result go out of scope
MonitorLocalsDropped ==
    /\ limitOrder' = 0
    /\ lastExecutedQty' = 0
    /\ totalExecuted' = 0
    /\ polled' = FALSE
    /\ monitorResult' = NoResult

\* the locals of smartClosePositions go out of scope when it returns
CloseLocalsDropped ==
    /\ pos1Amount' = 0
    /\ pos2Amount' = 0
    /\ totalClosed1' = 0
    /\ totalClosed2' = 0
    /\ remainingAmount' = 0
    /\ closeAttempts' = 0

\* while (true) { cycle += 1; quantity = getRandomFloat(baseQuantity, 1, 1.3, true); ... }
StartCycle ==
    /\ UNCHANGED <<threeVars, clientVars>>
    /\ pc = "cycleStart"
    /\ cycle < MaxCycles
    /\ cycle' = cycle + 1
    /\ \E m \in RandomMultiples : quantity' = getRandomFloat(baseQuantity, m)
    /\ orderFilled' = FALSE
    /\ totalHedged' = 0
    /\ rehangAttempts' = 0
    /\ orders' = <<>>
    /\ helperSold' = 0
    /\ hedgeFailed' = FALSE
    /\ mktOrders' = {}
    /\ cancelled' = {}
    /\ heldAtClose' = {}
    /\ closeIssued' = {}
    /\ pc' = "rehang"
    /\ UNCHANGED <<apiQuantity, baseQuantity, monVars, pos1, pos2, pos1Amount,
                   pos2Amount, totalClosed1, totalClosed2, remainingAmount,
                   closeAttempts>>

\* a loop that does not count the pass it starts
UncountedAttempt(n) == n

\* rehangAttempts += 1 (loopHedge) / rehangAttempts++ (smartClosePositions)
CountedAttempt(n) == n + 1

\* the quantity of the LIMIT buy placed by one pass of the rehang loop
RehangOrderQuantity == quantity

\* head and first half of the rehang loop: the while test, getBid1Price, buyOrder
PlaceLimitOrder ==
    /\ UNCHANGED <<threeVars, clientVars>>
    /\ pc = "rehang"
    /\ IF ~orderFilled /\ rehangAttempts < MaxRehangAttempts
       THEN /\ rehangAttempts' = CountedAttempt(rehangAttempts)
            /\ \E ok \in BOOLEAN :
                 IF ok
                 THEN /\ orders' = Append(orders, [acct |-> 1, orig |-> RehangOrderQuantity,
                                                   exec |-> 0, status |-> "NEW"])
                      /\ limitOrder' = Len(orders) + 1
                      /\ lastExecutedQty' = 0
                      /\ totalExecuted' = 0
                      /\ polled' = FALSE
                      /\ monitorResult' = NoResult
                      /\ pc' = "monitor"
                 ELSE \* getBid1Price or buyOrder threw: caught by the cycle's catch
                      /\ pc' = "catch"
                      /\ UNCHANGED <<orders, monVars>>
       ELSE /\ pc' = IF orderFilled THEN "validate" ELSE "skip"
            /\ UNCHANGED <<rehangAttempts, orders, monVars>>
    /\ UNCHANGED <<cycle, apiQuantity, baseQuantity, quantity, orderFilled, totalHedged,
                   pos1, pos2, helperSold, hedgeFailed, mktOrders, cancelled, closeVars>>

\* the exchange fills part or all of an open LIMIT buy order
ExchangeFill ==
    /\ UNCHANGED <<threeVars, clientVars>>
    /\ \E i \in 1..Len(orders) :
      /\ orders[i].status \in OpenStatuses
      /\ \E e \in {orders[i].exec + d : d \in FillSteps} \cup {orders[i].orig} :
           /\ e > orders[i].exec
           /\ e <= orders[i].orig
           /\ orders' = [orders EXCEPT ![i].exec = e,
                            ![i].status = IF e = orders[i].orig THEN "FILLED"
                                          ELSE "PARTIALLY_FILLED"]
           /\ IF orders[i].acct = 1
              THEN pos1' = pos1 + (e - orders[i].exec) /\ pos2' = pos2
              ELSE pos2' = pos2 + (e - orders[i].exec) /\ pos1' = pos1
    /\ UNCHANGED <<pc, cycle, apiQuantity, baseQuantity, quantity, orderFilled,
                   totalHedged, rehangAttempts, monVars, helperSold, hedgeFailed,
                   mktOrders, cancelled, closeVars>>

\* result object returned by one poll of monitorOrderWithRealTimeExecution
PollResult(status, executed) ==
    IF status = "FILLED"
    THEN [success |-> TRUE, filled |-> TRUE, timeout |-> FALSE, totalExecuted |-> executed]
    ELSE [success |-> FALSE, filled |-> FALSE, timeout |-> FALSE, totalExecuted |-> executed]

\* one pass of the polling loop of monitorOrderWithRealTimeExecution with the
\* onPartialFill callback of loopHedge (account2 sells the new fill at market)
MonitorPoll ==
    /\ UNCHANGED <<threeVars, clientVars>>
    /\ pc = "monitor"
    /\ LET o == orders[limitOrder]
           currentExecuted == o.exec
           newlyExecuted == currentExecuted - lastExecutedQty
           formattedQty == formatQuantity(newlyExecuted)
           total == IF newlyExecuted > 0 THEN currentExecuted ELSE totalExecuted
       IN /\ polled' = TRUE
          /\ IF newlyExecuted > 0
             THEN /\ lastExecutedQty' = currentExecuted
                  /\ totalExecuted' = currentExecuted
                  /\ mktOrders' = mktOrders \cup {2}
                  /\ \E ok \in BOOLEAN :
                       IF ok
                       THEN /\ totalHedged' = totalHedged + formatQuantity(formattedQty)
                            /\ helperSold' = helperSold + formattedQty
                            /\ pos2' = pos2 - formattedQty
                            /\ UNCHANGED hedgeFailed
                       ELSE /\ hedgeFailed' = TRUE
                            /\ UNCHANGED <<totalHedged, helperSold, pos2>>
             ELSE UNCHANGED <<lastExecutedQty, totalExecuted, mktOrders, totalHedged,
                              helperSold, pos2, hedgeFailed>>
          /\ IF o.status = "FILLED" \/ o.status \in FailedStatuses
             THEN monitorResult' = PollResult(o.status, total) /\ pc' = "result"
             ELSE UNCHANGED <<monitorResult, pc>>
    /\ UNCHANGED <<cycle, apiQuantity, baseQuantity, quantity, orderFilled,
                   rehangAttempts, limitOrder, orders, pos1, cancelled, closeVars>>

\* getOrderStatus threw: the error is logged and the loop sleeps and polls again
MonitorPollError ==
    /\ UNCHANGED <<threeVars, clientVars>>
    /\ pc \in {"monitor", "closeMonitor"}
    /\ ~polled
    /\ polled' = TRUE
    /\ UNCHANGED <<pc, cycle, apiQuantity, baseQuantity, quantity, orderFilled,
                   totalHedged, rehangAttempts, limitOrder, orders, lastExecutedQty,
                   totalExecuted, monitorResult, pos1, pos2, helperSold, hedgeFailed,
                   mktOrders, cancelled, closeVars>>

\* the while test of the monitor fails: maxWaitTime has elapsed
MonitorTimeout ==
    /\ UNCHANGED <<threeVars, clientVars>>
    /\ pc \in {"monitor", "closeMonitor"}
    /\ polled
    /\ monitorResult' = [success |-> FALSE, filled |-> FALSE, timeout |-> TRUE,
                         totalExecuted |-> totalExecuted]
    /\ pc' = IF pc = "monitor" THEN "result" ELSE "closeResult"
    /\ UNCHANGED <<cycle, apiQuantity, baseQuantity, quantity, orderFilled,
                   totalHedged, rehangAttempts, limitOrder, orders, lastExecutedQty,
                   totalExecuted, polled, pos1, pos2, helperSold, hedgeFailed,
                   mktOrders, cancelled, closeVars>>

\* orders after the exchange processed a cancel request for order i
CancelOnExchange(os, i) ==
    IF os[i].status \in OpenStatuses THEN [os EXCEPT ![i].status = "CANCELED"] ELSE os

\* whether the last allowed pass still cancels its order before leaving the loop
CancelsBeforeRehang == rehangAttempts < MaxRehangAttempts

\* second half of the rehang loop: what loopHedge does with the monitor's result
HandleMonitorResult ==
    /\ UNCHANGED <<threeVars, clientVars>>
    /\ pc = "result"
    /\ IF monitorResult.success /\ monitorResult.filled
       THEN LET executedQty == IF monitorResult.totalExecuted # 0
                               THEN monitorResult.totalExecuted
                               ELSE orders[limitOrder].exec
                unhedged == formatQuantity(executedQty - totalHedged)
            IN /\ orderFilled' = TRUE
               /\ pc' = "validate"
               /\ IF unhedged > 0
                  THEN /\ mktOrders' = mktOrders \cup {2}
                       /\ \E ok \in BOOLEAN :
                            IF ok
                            THEN /\ totalHedged' = totalHedged + unhedged
                                 /\ helperSold' = helperSold + unhedged
                                 /\ pos2' = pos2 - unhedged
                                 /\ UNCHANGED hedgeFailed
                            ELSE /\ hedgeFailed' = TRUE
                                 /\ UNCHANGED <<totalHedged, helperSold, pos2>>
                  ELSE UNCHANGED <<mktOrders, totalHedged, helperSold, pos2, hedgeFailed>>
               /\ UNCHANGED <<apiQuantity, orders, cancelled>>
       ELSE LET remaining == apiQuantity - monitorResult.totalExecuted
                partly == monitorResult.totalExecuted > 0
            IN IF partly /\ remaining <= 0
               THEN \* orderFilled = true; break
                    /\ orderFilled' = TRUE
                    /\ pc' = "validate"
                    /\ UNCHANGED <<apiQuantity, orders, cancelled, mktOrders, totalHedged,
                                   helperSold, pos2, hedgeFailed>>
               ELSE /\ apiQuantity' = IF partly THEN remaining ELSE apiQuantity
                    /\ IF CancelsBeforeRehang
                       THEN /\ cancelled' = cancelled \cup {limitOrder}
                            /\ \E ok \in BOOLEAN :
                                 orders' = IF ok THEN CancelOnExchange(orders, limitOrder)
                                           ELSE orders
                            /\ pc' = "rehang"
                       ELSE /\ pc' = "skip"
                            /\ UNCHANGED <<orders, cancelled>>
                    /\ UNCHANGED <<orderFilled, mktOrders, totalHedged, helperSold, pos2,
                                   hedgeFailed>>
    /\ MonitorLocalsDropped
    /\ UNCHANGED <<cycle, baseQuantity, quantity, rehangAttempts, pos1, closeVars>>

\* if (!orderFilled) { printPositionStatus; continue; }
SkipCycle ==
    /\ UNCHANGED <<threeVars, clientVars>>
    /\ pc = "skip"
    /\ pc' = "cycleStart"
    /\ UNCHANGED <<cycle, apiQuantity, baseQuantity, quantity, orderFilled, totalHedged,
                   rehangAttempts, monVars, orders, pos1, pos2, helperSold, hedgeFailed,
                   mktOrders, cancelled, closeVars>>

\* catch (err) { printPositionStatus; sleep(5000); }
CatchCycleError ==
    /\ UNCHANGED <<threeVars, clientVars>>
    /\ pc = "catch"
    /\ pc' = "cycleStart"
    /\ UNCHANGED <<cycle, apiQuantity, baseQuantity, quantity, orderFilled, totalHedged,
                   rehangAttempts, monVars, orders, pos1, pos2, helperSold, hedgeFailed,
                   mktOrders, cancelled, closeVars>>

\* validateAndFixHedgeQuantity: compare the two live positions and place one
\* corrective MARKET order on the smaller side when they differ by more than
\* the tolerance
ValidateAndFixHedgeQuantity ==
    /\ UNCHANGED <<threeVars, clientVars>>
    /\ pc = "validate"
    /\ pc' = "hold"
    /\ \E queried \in BOOLEAN :
         IF ~queried
         THEN \* a position query failed: return without checking
              UNCHANGED <<pos1, pos2>>
         ELSE LET quantityDiff == Abs(Abs(pos1) - Abs(pos2))
              IN \E exceeds \in ExceedsTolerance(quantityDiff) :
                   IF exceeds
                   THEN \E ok \in BOOLEAN :
                          IF Abs(pos1) > Abs(pos2)
                          THEN /\ pos2' = IF ok
                                          THEN pos2 - formatQuantity(Abs(pos1) - Abs(pos2))
                                          ELSE pos2
                               /\ pos1' = pos1
                          ELSE /\ pos1' = IF ok
                                          THEN pos1 + formatQuantity(Abs(pos2) - Abs(pos1))
                                          ELSE pos1
                               /\ pos2' = pos2
                   ELSE UNCHANGED <<pos1, pos2>>
    /\ UNCHANGED <<cycle, apiQuantity, baseQuantity, quantity, orderFilled, totalHedged,
                   rehangAttempts, monVars, orders, helperSold, hedgeFailed, mktOrders,
                   cancelled, closeVars>>

\* await sleep(holdMs)
Hold ==
    /\ UNCHANGED <<threeVars, clientVars>>
    /\ pc = "hold"
    /\ pc' = "closeStart"
    /\ UNCHANGED <<cycle, apiQuantity, baseQuantity, quantity, orderFilled, totalHedged,
                   rehangAttempts, monVars, orders, pos1, pos2, helperSold, hedgeFailed,
                   mktOrders, cancelled, closeVars>>

----------------------------------------------------------------------------
(* HedgeTool.smartClosePositions *)

\* whether smartClosePositions goes on after reading the two positions:
\* it returns as soon as a successfully queried account shows no position
ClosingProceeds(ok1, ok2) == (ok1 => pos1 # 0) /\ (ok2 => pos2 # 0)

\* step 1 and 2 of smartClosePositions: read both positions, initialise the loop
SmartCloseStart ==
    /\ UNCHANGED <<threeVars, clientVars>>
    /\ pc = "closeStart"
    /\ heldAtClose' = {a \in {1, 2} : IF a = 1 THEN pos1 # 0 ELSE pos2 # 0}
    /\ \E ok1, ok2 \in BOOLEAN :
         IF ClosingProceeds(ok1, ok2)
         THEN /\ pos1Amount' = IF ok1 THEN pos1 ELSE 0
              /\ pos2Amount' = IF ok2 THEN pos2 ELSE 0
              /\ totalClosed1' = 0
              /\ totalClosed2' = 0
              /\ remainingAmount' = formatQuantity(Abs(IF ok2 THEN pos2 ELSE 0))
              /\ closeAttempts' = 0
              /\ pc' = "closeLoop"
         ELSE /\ pc' = "cooldown"
              /\ UNCHANGED <<pos1Amount, pos2Amount, totalClosed1, totalClosed2,
                             remainingAmount, closeAttempts>>
    /\ closeIssued' = {}
    /\ UNCHANGED <<cycle, apiQuantity, baseQuantity, quantity, orderFilled, totalHedged,
                   rehangAttempts, monVars, orders, pos1, pos2, helperSold, hedgeFailed,
                   mktOrders, cancelled>>

\* head and first half of the closing loop: getBid1Price, LIMIT buy on account2
PlaceCloseOrder ==
    /\ UNCHANGED <<threeVars, clientVars>>
    /\ pc = "closeLoop"
    /\ IF remainingAmount > 0 /\ closeAttempts < MaxCloseRehang
       THEN /\ closeAttempts' = CountedAttempt(closeAttempts)
            /\ \E ok \in BOOLEAN :
                 IF ok
                 THEN /\ orders' = Append(orders, [acct |-> 2, orig |-> remainingAmount,
                                                   exec |-> 0, status |-> "NEW"])
                      /\ limitOrder' = Len(orders) + 1
                      /\ lastExecutedQty' = 0
                      /\ totalExecuted' = 0
                      /\ polled' = FALSE
                      /\ monitorResult' = NoResult
                      /\ closeIssued' = closeIssued \cup {2}
                      /\ pc' = "closeMonitor"
                 ELSE \* caught inside the loop: sleep(3000) and try again
                      /\ pc' = "closeLoop"
                      /\ UNCHANGED <<orders, monVars, closeIssued>>
       ELSE /\ pc' = "closeFinal"
            /\ UNCHANGED <<closeAttempts, orders, monVars, closeIssued>>
    /\ UNCHANGED <<cycle, apiQuantity, baseQuantity, quantity, orderFilled, totalHedged,
                   rehangAttempts, pos1, pos2, helperSold, hedgeFailed, mktOrders,
                   cancelled, pos1Amount, pos2Amount, totalClosed1, totalClosed2,
                   remainingAmount, heldAtClose>>

\* one pass of the polling loop of monitorOrderWithRealTimeExecution with the
\* callback of smartClosePositions (account1 sells the new fill at market)
CloseMonitorPoll ==
    /\ UNCHANGED <<threeVars, clientVars>>
    /\ pc = "closeMonitor"
    /\ LET o == orders[limitOrder]
           currentExecuted == o.exec
           newlyExecuted == currentExecuted - lastExecutedQty
           formattedQty == formatQuantity(newlyExecuted)
           total == IF newlyExecuted > 0 THEN currentExecuted ELSE totalExecuted
       IN /\ polled' = TRUE
          /\ IF newlyExecuted > 0
             THEN /\ lastExecutedQty' = currentExecuted
                  /\ totalExecuted' = currentExecuted
                  /\ totalClosed2' = totalClosed2 + formattedQty
                  /\ closeIssued' = closeIssued \cup {1}
                  /\ \E ok \in BOOLEAN :
                       IF ok
                       THEN \* closeOrder.executedQty || formattedQty: the order
                            \* acknowledgement carries "0" or the filled quantity
                            /\ \E ackExecuted \in {0, formattedQty} :
                                 totalClosed1' = totalClosed1 + formatQuantity(ackExecuted)
                            /\ pos1' = pos1 - formattedQty
                       ELSE UNCHANGED <<totalClosed1, pos1>>
             ELSE UNCHANGED <<lastExecutedQty, totalExecuted, totalClosed1, totalClosed2,
                              closeIssued, pos1>>
          /\ IF o.status = "FILLED" \/ o.status \in FailedStatuses
             THEN monitorResult' = PollResult(o.status, total) /\ pc' = "closeResult"
             ELSE UNCHANGED <<monitorResult, pc>>
    /\ UNCHANGED <<cycle, apiQuantity, baseQuantity, quantity, orderFilled, totalHedged,
                   rehangAttempts, limitOrder, orders, pos2, helperSold, hedgeFailed,
                   mktOrders, cancelled, pos1Amount, pos2Amount, remainingAmount,
                   closeAttempts, heldAtClose>>

\* second half of the closing loop: what smartClosePositions does with the result
HandleCloseResult ==
    /\ UNCHANGED <<threeVars, clientVars>>
    /\ pc = "closeResult"
    /\ IF monitorResult.success /\ monitorResult.filled
       THEN /\ remainingAmount' = 0
            /\ pc' = "closeFinal"
            /\ UNCHANGED <<orders, cancelled>>
       ELSE LET partiallyFilled == formatQuantity(monitorResult.totalExecuted)
                left == formatQuantity(remainingAmount - partiallyFilled)
            IN /\ remainingAmount' = left
               /\ pc' = "closeLoop"
               /\ IF left > 0
                  THEN /\ cancelled' = cancelled \cup {limitOrder}
                       /\ \E ok \in BOOLEAN :
                            orders' = IF ok THEN CancelOnExchange(orders, limitOrder)
                                      ELSE orders
                  ELSE UNCHANGED <<orders, cancelled>>
    /\ MonitorLocalsDropped
    /\ UNCHANGED <<cycle, apiQuantity, baseQuantity, quantity, orderFilled, totalHedged,
                   rehangAttempts, pos1, pos2, helperSold, hedgeFailed, mktOrders,
                   pos1Amount, pos2Amount, totalClosed1, totalClosed2, closeAttempts,
                   heldAtClose, closeIssued>>

\* step 4 of smartClosePositions: MARKET orders for whatever is left
CloseRemainderAtMarket ==
    /\ UNCHANGED <<threeVars, clientVars>>
    /\ pc = "closeFinal"
    /\ pc' = "cooldown"
    /\ IF remainingAmount > 0
       THEN LET remaining2 == formatQuantity(remainingAmount)
                remaining1 == formatQuantity(pos1Amount - totalClosed1)
            IN /\ closeIssued' = closeIssued \cup (IF remaining1 > 0 THEN {1} ELSE {})
                                             \cup (IF remaining2 > 0 THEN {2} ELSE {})
               /\ \E ok1, ok2 \in BOOLEAN :
                    /\ pos1' = IF remaining1 > 0 /\ ok1 THEN pos1 - remaining1 ELSE pos1
                    /\ pos2' = IF remaining2 > 0 /\ ok2 THEN pos2 + remaining2 ELSE pos2
       ELSE UNCHANGED <<closeIssued, pos1, pos2>>
    /\ CloseLocalsDropped
    /\ UNCHANGED <<cycle, apiQuantity, baseQuantity, quantity, orderFilled, totalHedged,
                   rehangAttempts, monVars, orders, helperSold, hedgeFailed, mktOrders,
                   cancelled, heldAtClose>>

\* sleep(cooldownMinutes * 60 * 1000) and back to the head of while (true)
Cooldown ==
    /\ UNCHANGED <<threeVars, clientVars>>
    /\ pc = "cooldown"
    /\ pc' = "cycleStart"
    /\ UNCHANGED <<cycle, apiQuantity, baseQuantity, quantity, orderFilled, totalHedged,
                   rehangAttempts, monVars, orders, pos1, pos2, helperSold, hedgeFailed,
                   mktOrders, cancelled, closeVars>>

----------------------------------------------------------------------------
(* ThreeAccountHedgeTool.loopHedge and the SIGINT handler of runAutomatedFlow *)

ThreeInit ==
    /\ tpc = "setLeverage"
    /\ tcycle = 0
    /\ isClosing = FALSE
    /\ exitRequested = FALSE
    /\ exiting = FALSE
    /\ hpc = "idle"
    /\ exited = FALSE
    /\ signals = 0
    /\ handlerCancels = 0
    /\ handlerUnwinds = 0
    /\ awaitPending = FALSE
    /\ resumed = FALSE

\* no monitoring call has been made yet
MonitorInit ==
    /\ mfn = "none"
    /\ mpc = "idle"
    /\ clock = 0
    /\ mLastExecutedQty = 0
    /\ mTotalExecuted = 0
    /\ mResult = NoResult
    /\ pollIssuedLate = FALSE
    /\ sawFilled = FALSE
    /\ sawFailed = FALSE
    /\ polledAfterTerminal = FALSE
    /\ pollErrors = FALSE
    /\ cumDelivered = 0
    /\ sumDeltas = 0
    /\ cumDecreased = FALSE
    /\ cbThrew = FALSE
    /\ maxPolled = 0
    /\ deliveries = 0
    /\ cbInFlight = FALSE
    /\ cbSettled = 0
    /\ mAnswer = NoAnswer

\* error object of a request: the HTTP status it carries (0: none) and what
\* its lower-cased message contains
NoError == [status |-> 0, msg |-> "none"]

\* AsterFuturesAPI constructor: timeOffsetMs = 0, lastTimeSyncAt = 0; no call made yet
RequestInit ==
    /\ rpc = "idle"
    /\ calls = 0
    /\ needAuth = FALSE
    /\ attempt = 0
    /\ lastError = NoError
    /\ dateNow = 1
    /\ timeOffsetMs = 0
    /\ lastTimeSyncAt = 0
    /\ serverOffset = 0
    /\ stampOffset = 0
    /\ requestsSent = 0
    /\ retryDelays = 0
    /\ alerts = 0
    /\ all500 = TRUE
    /\ skewPending = FALSE
    /\ syncsSinceSkew = 0
    /\ syncsBeforeRetry = -1
    /\ syncedBeforeSend = FALSE

\* validateAndFixHedgeQuantity not called yet; both accounts flat
ReconcileInit ==
    /\ vpc = "idle"
    /\ xPos1 = 0
    /\ xPos2 = 0
    /\ vQueried = FALSE
    /\ vPos1Amount = 0
    /\ vPos2Amount = 0
    /\ fixOrders = <<>>
    /\ vRequeries = 0

\* generateQuantityDistribution not called yet
SizingInit ==
    /\ spc = "idle"
    /\ sQuantity = 0
    /\ sPrice = 0
    /\ sMaxValue = 0
    /\ mainQuantity = 0
    /\ sRatio = 0
    /\ quantities = <<0, 0>>

\* closePosition not called yet
CloseCallInit ==
    /\ kpc = "idle"
    /\ kClient = "index.js"
    /\ kPositions = <<>>
    /\ kQuantity = 0
    /\ kOrders = <<>>
    /\ kResult = "none"
    /\ kError = "none"

\* no batch started yet
BatchInit ==
    /\ bpc = "idle"
    /\ bKind = "none"
    /\ bOutcome = [a \in 1..3 |-> "none"]
    /\ bResults = [a \in 1..3 |-> "none"]

\* no order book requested yet
BookInit ==
    /\ opc = "idle"
    /\ oClient = "none"
    /\ oLimit = 0
    /\ oSent = 0

\* no call whose delays are followed yet
BackoffInit ==
    /\ dpc = "idle"
    /\ dBase = 0
    /\ dAttempt = 0
    /\ delays = <<>>

\* loopMarketHedge not called; both accounts flat
MarketInit ==
    /\ mhpc = "idle"
    /\ mhCycle = 0
    /\ mhQuantity = 0
    /\ mhPos1 = 0
    /\ mhPos2 = 0
    /\ longResult = "none"
    /\ shortResult = "none"

\* smartHedgeOrder not called, no order placed
SmartInit ==
    /\ shpc = "idle"
    /\ shQuantity = 0
    /\ shOrder = [status |-> "none", orig |-> 0, exec |-> 0]
    /\ shResult = NoResult
    /\ shSuccess = FALSE
    /\ shHedged = 0
    /\ shLateFill = 0

UnitInit == ReconcileInit /\ SizingInit /\ CloseCallInit /\ BatchInit /\ BookInit
    /\ BackoffInit
    /\ MarketInit
    /\ SmartInit

\* both tools freshly constructed, nothing sent yet
Init == HedgeInit /\ ThreeInit /\ MonitorInit /\ RequestInit /\ UnitInit

\* the synchronous head of one pass of while (true), up to await getBid1Price
EnterCycle ==
    /\ tcycle < MaxLoopPasses
    /\ tcycle' = tcycle + 1
    /\ tpc' = "getBid1Price"

\* await this.setLeverage(...) returns (or throws and is caught); the loop is entered
SetLeverageDone ==
    /\ UNCHANGED <<hedgeVars, clientVars, resumed>>
    /\ ~exited
    /\ tpc = "setLeverage"
    /\ EnterCycle
    /\ awaitPending' = FALSE
    /\ UNCHANGED <<isClosing, exitRequested, exiting, hpc, exited, signals,
                   handlerCancels, handlerUnwinds>>

\* await mainAccount.getBid1Price returns: the LIMIT buy is sent; or it throws
GetBid1PriceDone ==
    /\ UNCHANGED <<hedgeVars, clientVars, resumed>>
    /\ ~exited
    /\ tpc = "getBid1Price"
    /\ \E ok \in BOOLEAN : tpc' = IF ok THEN "buyOrder" ELSE "catchSleep"
    /\ awaitPending' = FALSE
    /\ UNCHANGED <<tcycle, isClosing, exitRequested, exiting, hpc, exited, signals,
                   handlerCancels, handlerUnwinds>>

\* await mainAccount.buyOrder returns: monitoring starts; or it throws
BuyOrderDone ==
    /\ UNCHANGED <<hedgeVars, clientVars, resumed>>
    /\ ~exited
    /\ tpc = "buyOrder"
    /\ \E ok \in BOOLEAN : tpc' = IF ok THEN "monitorOrderStatus" ELSE "catchSleep"
    /\ awaitPending' = FALSE
    /\ UNCHANGED <<tcycle, isClosing, exitRequested, exiting, hpc, exited, signals,
                   handlerCancels, handlerUnwinds>>

\* await monitorOrderStatus returns: on success the helpers sell at market, otherwise
\* the cleanup (ensureNoPositionsAndOrders) is started
MonitorOrderStatusDone ==
    /\ UNCHANGED <<hedgeVars, clientVars, resumed>>
    /\ ~exited
    /\ tpc = "monitorOrderStatus"
    /\ \E success \in BOOLEAN : tpc' = IF success THEN "hedge" ELSE "cleanup"
    /\ awaitPending' = FALSE
    /\ UNCHANGED <<tcycle, isClosing, exitRequested, exiting, hpc, exited, signals,
                   handlerCancels, handlerUnwinds>>

\* the cleanup after a failed monitor ends (its errors are caught); continue
CleanupDone ==
    /\ UNCHANGED <<hedgeVars, clientVars, resumed>>
    /\ ~exited
    /\ tpc = "cleanup"
    /\ EnterCycle
    /\ awaitPending' = FALSE
    /\ UNCHANGED <<isClosing, exitRequested, exiting, hpc, exited, signals,
                   handlerCancels, handlerUnwinds>>

\* the helper orders settled and the positions were logged: sleep(holdMs)
HedgeDone ==
    /\ UNCHANGED <<hedgeVars, clientVars, resumed>>
    /\ ~exited
    /\ tpc = "hedge"
    /\ tpc' = "hold"
    /\ awaitPending' = FALSE
    /\ UNCHANGED <<tcycle, isClosing, exitRequested, exiting, hpc, exited, signals,
                   handlerCancels, handlerUnwinds>>

\* whether step 9 of the cycle skips its unwind
CycleSkipsUnwind == isClosing

\* the hold is over: step 9 tests isClosing and either skips the unwind or sets
\* the flag and sends the three closePosition calls
HoldDone ==
    /\ UNCHANGED <<hedgeVars, clientVars, resumed>>
    /\ ~exited
    /\ tpc = "hold"
    /\ IF CycleSkipsUnwind
       THEN EnterCycle /\ UNCHANGED isClosing
       ELSE /\ isClosing' = TRUE
            /\ tpc' = "closePosition"
            /\ UNCHANGED tcycle
    /\ awaitPending' = FALSE
    /\ UNCHANGED <<exitRequested, exiting, hpc, exited, signals,
                   handlerCancels, handlerUnwinds>>

\* the three closePosition calls settled: ensureNoPositionsAndOrders is started
ClosePositionsDone ==
    /\ UNCHANGED <<hedgeVars, clientVars, resumed>>
    /\ ~exited
    /\ tpc = "closePosition"
    /\ tpc' = "ensureNoPositions"
    /\ awaitPending' = FALSE
    /\ UNCHANGED <<tcycle, isClosing, exitRequested, exiting, hpc, exited, signals,
                   handlerCancels, handlerUnwinds>>

\* ensureNoPositionsAndOrders returns or throws: finally { isClosing = false };
\* on a throw the catch block sleeps 5 s
EnsureNoPositionsDone ==
    /\ UNCHANGED <<hedgeVars, clientVars, resumed>>
    /\ ~exited
    /\ tpc = "ensureNoPositions"
    /\ isClosing' = FALSE
    /\ \E ok \in BOOLEAN :
         IF ok THEN EnterCycle ELSE tpc' = "catchSleep" /\ UNCHANGED tcycle
    /\ awaitPending' = FALSE
    /\ UNCHANGED <<exitRequested, exiting, hpc, exited, signals,
                   handlerCancels, handlerUnwinds>>

\* a loop body without try/catch: the error rejects loopHedge
CycleErrorEscapes == FALSE

\* try { ... } catch (err) { ... } around the body of while (true)
CycleErrorCaught == TRUE

\* catch: after sleep(5000), this.isClosing = false and the next pass begins;
\* an error that left loopHedge would reach runAutomatedFlow().catch and
\* process.exit(1)
CatchSleepDone ==
    /\ UNCHANGED <<hedgeVars, clientVars>>
    /\ ~exited
    /\ tpc = "catchSleep"
    /\ IF CycleErrorCaught
       THEN /\ isClosing' = FALSE
            /\ EnterCycle
            /\ resumed' = TRUE
            /\ UNCHANGED exited
       ELSE /\ exited' = TRUE
            /\ UNCHANGED <<isClosing, tpc, tcycle, resumed>>
    /\ awaitPending' = FALSE
    /\ UNCHANGED <<exitRequested, exiting, hpc, signals,
                   handlerCancels, handlerUnwinds>>

\* a handler without the repeat test: every signal starts the sequence again
SignalNeverIgnored == FALSE

\* if (exiting) return;
SignalIgnored == exiting

\* a SIGINT is delivered: the handler runs up to its first await, inside
\* cancelAllOpenOrders (the getOpenOrders requests are sent), unless it is a repeat
Sigint ==
    /\ UNCHANGED <<hedgeVars, clientVars, resumed>>
    /\ ~exited
    /\ signals < MaxSignals
    /\ signals' = signals + 1
    /\ IF SignalIgnored
       THEN UNCHANGED <<exiting, exitRequested, hpc, handlerCancels, awaitPending>>
       ELSE /\ exiting' = TRUE
            /\ exitRequested' = TRUE
            /\ hpc' = "getOpenOrders"
            /\ handlerCancels' = handlerCancels + 1
            /\ awaitPending' = TRUE
    /\ UNCHANGED <<tpc, tcycle, isClosing, exited, handlerUnwinds>>

\* the handler after await tool.cancelAllOpenOrders(): it tests isClosing and
\* either starts closeAllPositions or skips it and calls process.exit(0)
HandlerAfterCancel ==
    IF ~isClosing
    THEN /\ isClosing' = TRUE
         /\ handlerUnwinds' = handlerUnwinds + 1
         /\ hpc' = "getPositions"
         /\ UNCHANGED exited
    ELSE /\ hpc' = "idle"
         /\ exited' = TRUE
         /\ UNCHANGED <<isClosing, handlerUnwinds>>

\* the getOpenOrders queries settled: nothing to cancel, or cancelAllOrders is sent
GetOpenOrdersDone ==
    /\ UNCHANGED <<hedgeVars, clientVars, resumed>>
    /\ ~exited
    /\ hpc = "getOpenOrders"
    /\ \E nothingToCancel \in BOOLEAN :
         IF nothingToCancel
         THEN HandlerAfterCancel
         ELSE hpc' = "cancelAllOrders" /\ UNCHANGED <<isClosing, handlerUnwinds, exited>>
    /\ UNCHANGED <<tpc, tcycle, exitRequested, exiting, signals, handlerCancels,
                   awaitPending>>

\* the cancelAllOrders requests settled
CancelAllOrdersDone ==
    /\ UNCHANGED <<hedgeVars, clientVars, resumed>>
    /\ ~exited
    /\ hpc = "cancelAllOrders"
    /\ HandlerAfterCancel
    /\ UNCHANGED <<tpc, tcycle, exitRequested, exiting, signals, handlerCancels,
                   awaitPending>>

\* closeAllPositions of the handler read the positions: none held (return, clear
\* the flag, exit) or the three closePosition calls are sent
HandlerGetPositionsDone ==
    /\ UNCHANGED <<hedgeVars, clientVars, resumed>>
    /\ ~exited
    /\ hpc = "getPositions"
    /\ \E hasPositions \in BOOLEAN :
         IF hasPositions
         THEN hpc' = "closePosition" /\ UNCHANGED <<isClosing, exited>>
         ELSE hpc' = "idle" /\ isClosing' = FALSE /\ exited' = TRUE
    /\ UNCHANGED <<tpc, tcycle, exitRequested, exiting, signals, handlerCancels,
                   handlerUnwinds, awaitPending>>

\* the handler's closePosition calls settled and the positions were logged:
\* tool.isClosing = false; process.exit(0)
HandlerClosePositionsDone ==
    /\ UNCHANGED <<hedgeVars, clientVars, resumed>>
    /\ ~exited
    /\ hpc = "closePosition"
    /\ hpc' = "idle"
    /\ isClosing' = FALSE
    /\ exited' = TRUE
    /\ UNCHANGED <<tpc, tcycle, exitRequested, exiting, signals, handlerCancels,
                   handlerUnwinds, awaitPending>>

ThreeNext ==
    \/ SetLeverageDone
    \/ GetBid1PriceDone
    \/ BuyOrderDone
    \/ MonitorOrderStatusDone
    \/ CleanupDone
    \/ HedgeDone
    \/ HoldDone
    \/ ClosePositionsDone
    \/ EnsureNoPositionsDone
    \/ CatchSleepDone
    \/ Sigint
    \/ GetOpenOrdersDone
    \/ CancelAllOrdersDone
    \/ HandlerGetPositionsDone
    \/ HandlerClosePositionsDone

SpecThree == Init /\ [][ThreeNext]_vars

\* every await of the loop and of the handler settles, every timer fires
SpecThreeFair == SpecThree /\ WF_vars(ThreeNext)

HedgeNext ==
    \/ StartCycle
    \/ PlaceLimitOrder
    \/ ExchangeFill
    \/ MonitorPoll
    \/ MonitorPollError
    \/ MonitorTimeout
    \/ HandleMonitorResult
    \/ SkipCycle
    \/ CatchCycleError
    \/ ValidateAndFixHedgeQuantity
    \/ Hold
    \/ SmartCloseStart
    \/ PlaceCloseOrder
    \/ CloseMonitorPoll
    \/ HandleCloseResult
    \/ CloseRemainderAtMarket
    \/ Cooldown

SpecHedge == Init /\ [][HedgeNext]_vars

\* every await of the cycle settles: the request returns or throws, the timer fires
SpecHedgeFair == SpecHedge /\ WF_vars(HedgeNext)

----------------------------------------------------------------------------
(* AsterFuturesAPI.monitorOrderStatus and monitorOrderWithRealTimeExecution,  *)
(* one call, with the time each poll and each sleep takes                     *)

MonitorFunctions == {"monitorOrderStatus", "monitorOrderWithRealTimeExecution"}

AllStatuses == {"NEW", "PARTIALLY_FILLED", "FILLED", "CANCELED", "REJECTED", "EXPIRED"}

\* seconds slept after a poll that neither filled nor failed: setTimeout 3000 / 2000
PollInterval(fn) == IF fn = "monitorOrderStatus" THEN 3 ELSE 2

\* seconds slept after a getOrderStatus that threw: setTimeout 5000 / 3000
ErrorInterval(fn) == IF fn = "monitorOrderStatus" THEN 5 ELSE 3

\* const startTime = Date.now(); let lastExecutedQty = 0; let totalExecuted = 0;
StartMonitor ==
    /\ UNCHANGED <<hedgeVars, threeVars, requestVars, unitVars>>
    /\ mpc = "idle"
    /\ \E fn \in MonitorFunctions : mfn' = fn
    /\ mpc' = "loop"
    /\ UNCHANGED <<clock, mLastExecutedQty, mTotalExecuted, mResult, pollIssuedLate,
                   sawFilled, sawFailed, polledAfterTerminal, pollErrors, cumDelivered,
                   sumDeltas, cumDecreased, cbThrew, maxPolled, deliveries, cbInFlight,
                   cbSettled, mAnswer>>

\* a loop test that still lets the instant maxWaitTime itself through
DeadlineInclusive == clock <= MaxWaitTime

\* the condition of while (Date.now() - startTime < maxWaitTime)
DeadlineNotReached == clock < MaxWaitTime

\* the loop test: either getOrderStatus is issued, or the call returns the
\* timeout result
LoopTest ==
    /\ UNCHANGED <<hedgeVars, threeVars, requestVars, unitVars>>
    /\ mpc = "loop"
    /\ IF DeadlineNotReached
       THEN /\ mpc' = "poll"
            /\ pollIssuedLate' = (pollIssuedLate \/ clock >= MaxWaitTime)
            /\ polledAfterTerminal' = (polledAfterTerminal \/ sawFilled \/ sawFailed)
            /\ UNCHANGED mResult
       ELSE /\ mpc' = "done"
            /\ mResult' = [success |-> FALSE, filled |-> FALSE, timeout |-> TRUE,
                           totalExecuted |-> mTotalExecuted]
            /\ UNCHANGED <<pollIssuedLate, polledAfterTerminal>>
    /\ UNCHANGED <<mfn, clock, mLastExecutedQty, mTotalExecuted, sawFilled, sawFailed,
                   pollErrors, cumDelivered, sumDeltas, cumDecreased, cbThrew, maxPolled,
                   deliveries, cbInFlight, cbSettled, mAnswer>>

\* a monitor that forgets to advance lastExecutedQty
StaleLastExecutedQty(currentExecuted) == mLastExecutedQty

\* lastExecutedQty = currentExecuted, after the callback returned or threw
NextLastExecutedQty(currentExecuted) == currentExecuted

\* a monitor without the inner try/catch: the callback's error reaches the outer catch
CallbackErrorEscapes == FALSE

\* the try/catch around await onPartialFill(...): the error is logged only
CallbackErrorSwallowed == TRUE

\* a monitor that calls onPartialFill(...) without awaiting it
CallbackNotAwaited == FALSE

\* await onPartialFill(newlyExecuted, currentExecuted, orderInfo)
CallbackAwaited == TRUE

\* the loop body from the end of the callback on: lastExecutedQty and
\* totalExecuted are advanced, then the status decides between return and sleep
AfterNewFill(lat, status, currentExecuted, called, threw) ==
    LET escaped == called /\ threw /\ ~CallbackErrorSwallowed
    IN /\ cbThrew' = (cbThrew \/ (called /\ threw))
       /\ IF escaped
          THEN \* the outer catch: sleep, then the loop test
               /\ clock' = clock + lat + ErrorInterval(mfn)
               /\ mpc' = "loop"
               /\ UNCHANGED <<mLastExecutedQty, mTotalExecuted, mResult,
                              sawFilled, sawFailed>>
          ELSE /\ mLastExecutedQty' = IF called THEN NextLastExecutedQty(currentExecuted)
                                                ELSE mLastExecutedQty
               /\ mTotalExecuted' = IF called THEN currentExecuted ELSE mTotalExecuted
               /\ sawFilled' = (sawFilled \/ status = "FILLED")
               /\ sawFailed' = (sawFailed \/ status \in FailedStatuses)
               /\ IF status = "FILLED"
                  THEN /\ mpc' = "done"
                       /\ clock' = clock + lat
                       /\ mResult' = [success |-> TRUE, filled |-> TRUE,
                                      timeout |-> FALSE,
                                      totalExecuted |-> mTotalExecuted']
                  ELSE IF status \in FailedStatuses
                  THEN /\ mpc' = "done"
                       /\ clock' = clock + lat
                       /\ mResult' = [success |-> FALSE, filled |-> FALSE,
                                      timeout |-> FALSE,
                                      totalExecuted |-> mTotalExecuted']
                  ELSE /\ mpc' = "loop"
                       /\ clock' = clock + lat + PollInterval(mfn)
                       /\ UNCHANGED mResult

\* getOrderStatus answered: a new fill is passed to onPartialFill (streaming
\* call only), which submits the helper's MARKET sell, and the call waits for
\* it; without a new fill the status decides between return and sleep at once
PollAnswered ==
    /\ UNCHANGED <<hedgeVars, threeVars, requestVars, unitVars>>
    /\ mpc = "poll"
    /\ \E lat \in PollLatencies, status \in AllStatuses,
          currentExecuted \in PolledQuantities :
         LET streaming == mfn = "monitorOrderWithRealTimeExecution"
             newlyExecuted == currentExecuted - mLastExecutedQty
             called == streaming /\ newlyExecuted > 0
         IN /\ deliveries' = IF called THEN deliveries + 1 ELSE deliveries
            /\ cumDelivered' = IF called THEN currentExecuted ELSE cumDelivered
            /\ sumDeltas' = IF called THEN sumDeltas + newlyExecuted ELSE sumDeltas
            /\ cumDecreased' = (cumDecreased \/ (called /\ currentExecuted < cumDelivered))
            /\ maxPolled' = IF streaming /\ currentExecuted > maxPolled
                            THEN currentExecuted ELSE maxPolled
            /\ IF called
               THEN /\ cbInFlight' = TRUE
                    /\ mAnswer' = [lat |-> lat, status |-> status,
                                   executedQty |-> currentExecuted]
                    /\ IF CallbackAwaited
                       THEN /\ mpc' = "callback"
                            /\ UNCHANGED <<clock, mLastExecutedQty, mTotalExecuted,
                                           mResult, sawFilled, sawFailed, cbThrew>>
                       ELSE AfterNewFill(lat, status, currentExecuted, TRUE, FALSE)
               ELSE /\ UNCHANGED <<cbInFlight, mAnswer>>
                    /\ AfterNewFill(lat, status, currentExecuted, FALSE, FALSE)
    /\ UNCHANGED <<mfn, pollIssuedLate, polledAfterTerminal, pollErrors, cbSettled>>

\* onPartialFill returns or throws (the helper's sell was answered or failed);
\* the call waiting for it goes on with the rest of the loop body
CallbackSettled ==
    /\ UNCHANGED <<hedgeVars, threeVars, requestVars, unitVars>>
    /\ cbInFlight
    /\ \E cbOk \in BOOLEAN :
         IF mpc = "callback"
         THEN AfterNewFill(mAnswer.lat, mAnswer.status, mAnswer.executedQty, TRUE, ~cbOk)
         ELSE /\ cbThrew' = (cbThrew \/ ~cbOk)
              /\ UNCHANGED <<mpc, clock, mLastExecutedQty, mTotalExecuted, mResult,
                             sawFilled, sawFailed>>
    /\ cbInFlight' = FALSE
    /\ cbSettled' = cbSettled + 1
    /\ mAnswer' = NoAnswer
    /\ UNCHANGED <<mfn, pollIssuedLate, polledAfterTerminal, pollErrors, cumDelivered,
                   sumDeltas, cumDecreased, maxPolled, deliveries>>

\* a monitor that gives up at the first failed poll
ReturnOnPollError == "done"

\* where the call goes on after the catch block of a failed poll has slept
AfterPollError == "loop"

\* getOrderStatus threw: the error is logged, the call sleeps and tests the loop again
PollThrows ==
    /\ UNCHANGED <<hedgeVars, threeVars, requestVars, unitVars>>
    /\ mpc = "poll"
    /\ \E lat \in PollLatencies : clock' = clock + lat + ErrorInterval(mfn)
    /\ mpc' = AfterPollError
    /\ pollErrors' = TRUE
    /\ UNCHANGED <<mfn, mLastExecutedQty, mTotalExecuted, mResult, pollIssuedLate,
                   sawFilled, sawFailed, polledAfterTerminal, cumDelivered, sumDeltas,
                   cumDecreased, cbThrew, maxPolled, deliveries, cbInFlight, cbSettled,
                   mAnswer>>

MonitorNext ==
    \/ StartMonitor
    \/ LoopTest
    \/ PollAnswered
    \/ CallbackSettled
    \/ PollThrows

SpecMonitor == Init /\ [][MonitorNext]_vars

----------------------------------------------------------------------------
(* AsterFuturesAPI.makeRequest and syncTime (src/unnamed/part_001) *)

\* errors one attempt may end with: an HTTP error response (its message holds
\* the response body) or an exception of nodeFetch / response.json()
FetchErrors ==
    {[status |-> 500, msg |-> "plain"],      \* HTTP 500
     [status |-> 429, msg |-> "plain"],      \* HTTP 429
     [status |-> 400, msg |-> "plain"],      \* HTTP 400, e.g. {"code":-2019,"msg":"Margin is insufficient."}
     [status |-> 400, msg |-> "network"],    \* HTTP 400 whose body holds one of the network keywords
     [status |-> 400, msg |-> "-1021"],      \* HTTP 400, code -1021: timestamp outside recvWindow
     [status |-> 400, msg |-> "recvwindow"], \* HTTP 400 whose body names recvWindow, e.g. code -1131
     [status |-> 0,   msg |-> "network"],    \* nodeFetch threw ETIMEDOUT, ECONNRESET, fetch failed, ...
     [status |-> 0,   msg |-> "plain"]}      \* another exception

\* msg.includes('-1021') || msg.includes('recvwindow')
IsTimestampSkew(err) == err.msg \in {"-1021", "recvwindow"}

\* const shouldRetry = (err, status) => net || httpRetry || tsSkew
shouldRetry(err, status) ==
    LET net == err.msg = "network"
        httpRetry == status # 0 /\ (status = 429 \/ (status >= 500 /\ status < 600))
        tsSkew == IsTimestampSkew(err)
    IN net \/ httpRetry \/ tsSkew

\* a loop that gives up one attempt early
ExhaustedOneEarly(a) == a >= RequestRetries

\* attempt > maxRetries
AttemptsExhausted(a) == a > RequestRetries

\* needAuth && (!this.lastTimeSyncAt || (Date.now() - this.lastTimeSyncAt) > 60_000)
NeedsProactiveSync ==
    needAuth /\ (lastTimeSyncAt = 0 \/ dateNow - lastTimeSyncAt > StaleAfter)

\* a caller invokes makeRequest: attempt = 0, lastError = null
CallMakeRequest ==
    /\ UNCHANGED <<hedgeVars, threeVars, monitorVars, unitVars>>
    /\ rpc \in {"idle", "returned", "thrown"}
    /\ calls < MaxCalls
    /\ calls' = calls + 1
    /\ \E auth \in BOOLEAN : needAuth' = auth
    /\ \E e \in ElapsedBetweenCalls : dateNow' = dateNow + e
    /\ \E o \in ServerOffsets : serverOffset' = o
    /\ attempt' = 0
    /\ lastError' = NoError
    /\ requestsSent' = 0
    /\ retryDelays' = 0
    /\ alerts' = 0
    /\ all500' = TRUE
    /\ skewPending' = FALSE
    /\ syncsSinceSkew' = 0
    /\ syncsBeforeRetry' = -1
    /\ syncedBeforeSend' = FALSE
    /\ rpc' = "attempt"
    /\ UNCHANGED <<timeOffsetMs, lastTimeSyncAt, stampOffset>>

\* the request is handed to nodeFetch
SendRequest ==
    /\ rpc' = "fetch"
    /\ requestsSent' = requestsSent + 1
    /\ syncsBeforeRetry' = IF skewPending THEN syncsSinceSkew' ELSE syncsBeforeRetry
    /\ skewPending' = FALSE

\* syncTime(): on success timeOffsetMs and lastTimeSyncAt are refreshed, every
\* failure is caught and logged
syncTime(ok) ==
    /\ timeOffsetMs' = IF ok THEN serverOffset ELSE timeOffsetMs
    /\ lastTimeSyncAt' = IF ok THEN dateNow ELSE lastTimeSyncAt

\* one pass of while (attempt <= maxRetries) up to the first await: the
\* parameters are rebuilt with timestamp = Date.now() + timeOffsetMs and signed,
\* then either syncTime is awaited or the request is sent
BuildAttempt ==
    /\ UNCHANGED <<hedgeVars, threeVars, monitorVars, unitVars>>
    /\ rpc = "attempt"
    /\ stampOffset' = IF needAuth THEN timeOffsetMs ELSE stampOffset
    /\ syncedBeforeSend' = FALSE
    /\ IF NeedsProactiveSync
       THEN /\ rpc' = "sync"
            /\ syncsSinceSkew' = syncsSinceSkew + 1
            /\ UNCHANGED <<requestsSent, syncsBeforeRetry, skewPending>>
       ELSE /\ UNCHANGED syncsSinceSkew
            /\ SendRequest
    /\ UNCHANGED <<calls, needAuth, attempt, lastError, dateNow, timeOffsetMs,
                   lastTimeSyncAt, serverOffset, retryDelays, alerts, all500>>

\* the proactive syncTime settled: the request built before it is sent
ProactiveSyncDone ==
    /\ UNCHANGED <<hedgeVars, threeVars, monitorVars, unitVars>>
    /\ rpc = "sync"
    /\ \E ok \in BOOLEAN : syncTime(ok) /\ syncedBeforeSend' = ok
    /\ UNCHANGED syncsSinceSkew
    /\ SendRequest
    /\ UNCHANGED <<calls, needAuth, attempt, lastError, dateNow, serverOffset,
                   stampOffset, retryDelays, alerts, all500>>

\* a client that throws without raising the alert
ThrowsSilently == FALSE

\* await sendTelegramAlert(alertMsg); throw error
AlertsBeforeThrow == TRUE

\* the end of the catch block: alert and throw, or go on to the retry delay
AfterCatch(err, a) ==
    IF AttemptsExhausted(a) \/ ~shouldRetry(err, err.status)
    THEN /\ alerts' = IF AlertsBeforeThrow THEN alerts + 1 ELSE alerts
         /\ rpc' = "thrown"
    ELSE /\ rpc' = "delay"
         /\ UNCHANGED alerts

\* nodeFetch settled: the result is returned, or the catch block runs up to
\* its first await (syncTime after a timestamp-skew error, else the alert or
\* the retry delay)
FetchDone ==
    /\ UNCHANGED <<hedgeVars, threeVars, monitorVars, unitVars>>
    /\ rpc = "fetch"
    /\ \/ /\ rpc' = "returned"
          /\ all500' = FALSE
          /\ UNCHANGED <<attempt, lastError, alerts, skewPending, syncsSinceSkew>>
       \/ \E err \in FetchErrors :
            /\ lastError' = err
            /\ attempt' = attempt + 1
            /\ all500' = (all500 /\ err.status = 500)
            /\ IF IsTimestampSkew(err)
               THEN /\ rpc' = "catchSync"
                    /\ skewPending' = TRUE
                    /\ syncsSinceSkew' = 1
                    /\ UNCHANGED alerts
               ELSE /\ AfterCatch(err, attempt + 1)
                    /\ UNCHANGED <<skewPending, syncsSinceSkew>>
    /\ UNCHANGED <<calls, needAuth, dateNow, timeOffsetMs, lastTimeSyncAt, serverOffset,
                   stampOffset, requestsSent, retryDelays, syncsBeforeRetry,
                   syncedBeforeSend>>

\* the syncTime awaited in the catch block settled
CatchSyncDone ==
    /\ UNCHANGED <<hedgeVars, threeVars, monitorVars, unitVars>>
    /\ rpc = "catchSync"
    /\ \E ok \in BOOLEAN : syncTime(ok)
    /\ AfterCatch(lastError, attempt)
    /\ UNCHANGED <<calls, needAuth, attempt, lastError, dateNow, serverOffset, stampOffset,
                   requestsSent, retryDelays, all500, skewPending, syncsSinceSkew,
                   syncsBeforeRetry, syncedBeforeSend>>

\* the retry delay is over: back to the loop test, which holds
DelayDone ==
    /\ UNCHANGED <<hedgeVars, threeVars, monitorVars, unitVars>>
    /\ rpc = "delay"
    /\ \E t \in DelayTicks : dateNow' = dateNow + t
    /\ retryDelays' = retryDelays + 1
    /\ rpc' = "attempt"
    /\ UNCHANGED <<calls, needAuth, attempt, lastError, timeOffsetMs, lastTimeSyncAt,
                   serverOffset, stampOffset, requestsSent, alerts, all500, skewPending,
                   syncsSinceSkew, syncsBeforeRetry, syncedBeforeSend>>

RequestNext ==
    \/ CallMakeRequest
    \/ BuildAttempt
    \/ ProactiveSyncDone
    \/ FetchDone
    \/ CatchSyncDone
    \/ DelayDone

SpecRequest == Init /\ [][RequestNext]_vars

----------------------------------------------------------------------------
(* HedgeTool.validateAndFixHedgeQuantity, one call, with the exchange holding *)
(* whatever positions the opening phase left                                  *)

\* the state outside the call
notReconcileVars == <<hedgeVars, threeVars, monitorVars, requestVars, sizingVars, closeCallVars,
                      batchVars, bookVars,
    backoffVars,
    marketVars,
    smartVars>>

\* the loop calls validateAndFixHedgeQuantity(symbol): both getPositions are sent
CallValidate ==
    /\ UNCHANGED notReconcileVars
    /\ vpc = "idle"
    /\ \E p1 \in HeldLong, p2 \in HeldShort : xPos1' = p1 /\ xPos2' = p2
    /\ vpc' = "getPositions"
    /\ UNCHANGED <<vQueried, vPos1Amount, vPos2Amount, fixOrders, vRequeries>>

\* account.sellOrder / buyOrder(symbol, fixQuantity, null, 'MARKET', 'BOTH')
FixOrder(acct, side, qty) == <<[acct |-> acct, side |-> side, type |-> "MARKET", qty |-> qty]>>

\* Promise.allSettled of the two getPositions settled: return when one failed;
\* otherwise compare the magnitudes and send the corrective order when the
\* difference exceeds the tolerance
PositionsSettled ==
    /\ UNCHANGED notReconcileVars
    /\ vpc = "getPositions"
    /\ \E ok1 \in BOOLEAN, ok2 \in BOOLEAN :
         IF ~ok1 \/ ~ok2
         THEN /\ vpc' = "done"
              /\ UNCHANGED <<vQueried, vPos1Amount, vPos2Amount, fixOrders>>
         ELSE LET quantityDiff == Abs(Abs(xPos1) - Abs(xPos2))
              IN /\ vQueried' = TRUE
                 /\ vPos1Amount' = xPos1
                 /\ vPos2Amount' = xPos2
                 /\ \E exceeds \in ExceedsTolerance(quantityDiff) :
                      IF exceeds
                      THEN IF Abs(xPos1) > Abs(xPos2)
                           THEN /\ fixOrders' = fixOrders \o
                                     FixOrder(2, "SELL", formatQuantity(Abs(xPos1) - Abs(xPos2)))
                                /\ vpc' = "fixOrder"
                           ELSE IF Abs(xPos2) > Abs(xPos1)
                           THEN /\ fixOrders' = fixOrders \o
                                     FixOrder(1, "BUY", formatQuantity(Abs(xPos2) - Abs(xPos1)))
                                /\ vpc' = "fixOrder"
                           ELSE /\ vpc' = "recheck"
                                /\ UNCHANGED fixOrders
                      ELSE /\ vpc' = "done"
                           /\ UNCHANGED fixOrders
    /\ UNCHANGED <<xPos1, xPos2, vRequeries>>

\* the corrective MARKET order is executed by the exchange, or it is rejected
\* and the error is logged; then the call sleeps 2 s
FixOrderSettled ==
    /\ UNCHANGED notReconcileVars
    /\ vpc = "fixOrder"
    /\ LET o == fixOrders[Len(fixOrders)]
       IN \E ok \in BOOLEAN :
            /\ xPos1' = IF ok /\ o.acct = 1 THEN xPos1 + o.qty ELSE xPos1
            /\ xPos2' = IF ok /\ o.acct = 2 THEN xPos2 - o.qty ELSE xPos2
    /\ vpc' = "recheck"
    /\ UNCHANGED <<vQueried, vPos1Amount, vPos2Amount, fixOrders, vRequeries>>

\* await this.printPositionStatus(symbol): the positions are queried and printed once
RecheckDone ==
    /\ UNCHANGED notReconcileVars
    /\ vpc = "recheck"
    /\ vRequeries' = vRequeries + 1
    /\ vpc' = "done"
    /\ UNCHANGED <<xPos1, xPos2, vQueried, vPos1Amount, vPos2Amount, fixOrders>>

ReconcileNext ==
    \/ CallValidate
    \/ PositionsSettled
    \/ FixOrderSettled
    \/ RecheckDone

SpecReconcile == Init /\ [][ReconcileNext]_vars

----------------------------------------------------------------------------
(* ThreeAccountHedgeTool.generateRandomQuantity and generateQuantityDistribution. *)
(* Drawn quantities are in millionths of a unit, returned ones in thousandths.   *)

\* the state outside the call
notSizingVars == <<hedgeVars, threeVars, monitorVars, requestVars, reconcileVars, closeCallVars,
                   batchVars, bookVars,
    backoffVars,
    marketVars,
    smartVars>>

\* parseFloat((num / den).toFixed(3)) for num / den >= 0 given in thousandths:
\* the nearest thousandth, the larger one when two are equally near
toFixed3(num, den) == (2 * num + den) \div (2 * den)

\* generateRandomQuantity for a drawn quantity q (millionths), reference price
\* (thousands of USDT) and maxPositionValue (USDT): positionValue > maxValue
\* is q * price > maxValue * 1000, and safeQuantity is maxValue / price thousandths
generateRandomQuantity(q, price, maxValue) ==
    IF price > 0 /\ q * price > maxValue * 1000
    THEN toFixed3(maxValue, price)
    ELSE toFixed3(q, 1000)

Max(a, b) == IF a > b THEN a ELSE b

\* the two shares generateQuantityDistribution returns for mainQuantity main
\* (thousandths) and ratio1 (thousandths)
SplitShares(main, ratio1) ==
    LET ratio2 == 1000 - ratio1
        quantity1 == main * ratio1
        quantity2 == main * ratio2
        finalQuantity1 == Max(quantity1, MinShare)
        finalQuantity2 == Max(quantity2, MinShare)
        totalAdjusted == finalQuantity1 + finalQuantity2
    IN IF totalAdjusted > main * 1000
       THEN \* scaleFactor = mainQuantity / totalAdjusted
            <<toFixed3(finalQuantity1 * main, totalAdjusted),
              toFixed3(finalQuantity2 * main, totalAdjusted)>>
       ELSE <<toFixed3(finalQuantity1, 1000), toFixed3(finalQuantity2, 1000)>>

\* const mainQuantity = this.generateRandomQuantity()
CallGenerateRandomQuantity ==
    /\ UNCHANGED notSizingVars
    /\ spc = "idle"
    /\ \E q \in DrawnQuantities, price \in ReferencePrices, maxValue \in MaxPositionValues :
         /\ sQuantity' = q
         /\ sPrice' = price
         /\ sMaxValue' = maxValue
         /\ mainQuantity' = generateRandomQuantity(q, price, maxValue)
    /\ spc' = "sized"
    /\ UNCHANGED <<sRatio, quantities>>

\* the rest of generateQuantityDistribution: draw ratio1, split, return
SplitQuantity ==
    /\ UNCHANGED notSizingVars
    /\ spc = "sized"
    /\ \E ratio1 \in SplitRatios :
         /\ sRatio' = ratio1
         /\ quantities' = SplitShares(mainQuantity, ratio1)
    /\ spc' = "split"
    /\ UNCHANGED <<sQuantity, sPrice, sMaxValue, mainQuantity>>

SizingNext ==
    \/ CallGenerateRandomQuantity
    \/ SplitQuantity

SpecSizing == Init /\ [][SizingNext]_vars

----------------------------------------------------------------------------
(* AsterFuturesAPI.closePosition, one call, as written in src/index.js and as *)
(* written in src/unnamed/part_001                                            *)

\* the state outside the call
notCloseCallVars == <<hedgeVars, threeVars, monitorVars, requestVars, reconcileVars,
                      sizingVars, batchVars, bookVars,
    backoffVars,
    marketVars,
    smartVars>>

Clients == {"index.js", "part_001"}

\* what placeOrder may do: answer the order, or throw an error whose message
\* names a rejected reduceOnly order, or throw another error
PlaceOrderOutcomes == {"ok", "reduceOnlyRejected", "otherError"}

RECURSIVE FirstNonZero(_)
\* for (const position of positions) { if (positionAmt === 0) continue; ... }:
\* the positionAmt of the first entry that is not flat (0: every entry is flat)
FirstNonZero(ps) ==
    IF ps = <<>> THEN 0
    ELSE IF Head(ps) # 0 THEN Head(ps)
    ELSE FirstNonZero(Tail(ps))

\* a close order in the direction of the position
SameSide(positionAmt) == IF positionAmt > 0 THEN "BUY" ELSE "SELL"

\* side of the close order: SELL closes a long position, BUY a short one
CloseSide(positionAmt) == IF positionAmt > 0 THEN "SELL" ELSE "BUY"

\* quantity of the close order: quantity || Math.abs(positionAmt), which
\* part_001 then rounds with toFixed(3) and index.js sends as it is
CloseQuantity(client, override, positionAmt) ==
    LET closeQuantity == IF override # 0 THEN override ELSE Abs(positionAmt)
    IN IF client = "part_001" THEN formatQuantity(closeQuantity) ELSE closeQuantity

\* the inner catch of part_001: the message contains 'reduceonly' and
\* 'rejected'; index.js has no such catch
RejectionIgnored(client, outcome) == client = "part_001" /\ outcome = "reduceOnlyRejected"

\* closePosition(symbol, quantity) is called: getPositions is sent
CallClosePosition ==
    /\ UNCHANGED notCloseCallVars
    /\ kpc = "idle"
    /\ \E client \in Clients, ps \in PositionLists, override \in QuantityOverrides :
         /\ kClient' = client
         /\ kPositions' = ps
         /\ kQuantity' = override
    /\ kpc' = "getPositions"
    /\ UNCHANGED <<kOrders, kResult, kError>>

\* getPositions settled: it threw (the error is rethrown), or there is nothing
\* to close (return null), or the order for the first open entry is sent
GetPositionsSettled ==
    /\ UNCHANGED notCloseCallVars
    /\ kpc = "getPositions"
    /\ \E ok \in BOOLEAN :
         IF ~ok
         THEN /\ kpc' = "thrown"
              /\ kError' = "otherError"
              /\ UNCHANGED <<kOrders, kResult>>
         ELSE LET positionAmt == FirstNonZero(kPositions)
              IN IF positionAmt = 0
                 THEN /\ kpc' = "returned"
                      /\ kResult' = "null"
                      /\ UNCHANGED <<kOrders, kError>>
                 ELSE /\ kOrders' = Append(kOrders,
                             [side |-> CloseSide(positionAmt), type |-> "MARKET",
                              quantity |-> CloseQuantity(kClient, kQuantity, positionAmt),
                              reduceOnly |-> TRUE])
                      /\ kpc' = "placeOrder"
                      /\ UNCHANGED <<kResult, kError>>
    /\ UNCHANGED <<kClient, kPositions, kQuantity>>

\* placeOrder settled: the order is returned, a rejected reduceOnly order is
\* ignored (return null), or the error is rethrown
PlaceOrderSettled ==
    /\ UNCHANGED notCloseCallVars
    /\ kpc = "placeOrder"
    /\ \E outcome \in PlaceOrderOutcomes :
         IF outcome = "ok"
         THEN /\ kpc' = "returned"
              /\ kResult' = "order"
              /\ UNCHANGED kError
         ELSE IF RejectionIgnored(kClient, outcome)
         THEN /\ kpc' = "returned"
              /\ kResult' = "null"
              /\ UNCHANGED kError
         ELSE /\ kpc' = "thrown"
              /\ kError' = outcome
              /\ UNCHANGED kResult
    /\ UNCHANGED <<kClient, kPositions, kQuantity, kOrders>>

CloseCallNext ==
    \/ CallClosePosition
    \/ GetPositionsSettled
    \/ PlaceOrderSettled

SpecCloseCall == Init /\ [][CloseCallNext]_vars

----------------------------------------------------------------------------
(* One fan-out batch: await Promise.allSettled([account.method(...), ...])   *)

\* the state outside the batch
notBatchVars == <<hedgeVars, threeVars, monitorVars, requestVars, reconcileVars,
                  sizingVars, closeCallVars, bookVars,
    backoffVars,
    marketVars,
    smartVars>>

\* the batches of the two tools: the method and the accounts it is called on
\* (the helper sells go to the two accounts that are not the main account)
Batches ==
    {<<"getPositions", {1, 2, 3}>>, <<"closePosition", {1, 2, 3}>>,
     <<"cancelAllOrders", {1, 2, 3}>>, <<"getOpenOrders", {1, 2, 3}>>,
     <<"sellOrder", {2, 3}>>, <<"sellOrder", {1, 3}>>, <<"sellOrder", {1, 2}>>,
     <<"closePosition", {1, 2}>>, <<"getPositions", {1, 2}>>}

\* when a Promise.all would resume the coordinator: everything fulfilled, or
\* the first rejection
AllFulfilledOrOneRejected(outcome) ==
    \/ \A a \in 1..3 : outcome[a] \in {"none", "fulfilled"}
    \/ \E a \in 1..3 : outcome[a] = "rejected"

\* when Promise.allSettled resumes the coordinator: no request is pending
AllSettled(outcome) == \A a \in 1..3 : outcome[a] # "pending"

\* the array literal is evaluated: the method is called on every account of the
\* batch, each call sends its request, and the coordinator awaits the batch
StartBatch ==
    /\ UNCHANGED notBatchVars
    /\ bpc = "idle"
    /\ \E b \in Batches :
         /\ bKind' = b[1]
         /\ bOutcome' = [a \in 1..3 |-> IF a \in b[2] THEN "pending" ELSE "none"]
    /\ bpc' = "awaiting"
    /\ UNCHANGED bResults

\* the request of one account is answered or fails, whatever the others did
RequestSettles ==
    /\ UNCHANGED notBatchVars
    /\ \E a \in 1..3, result \in {"fulfilled", "rejected"} :
         /\ bOutcome[a] = "pending"
         /\ bOutcome' = [bOutcome EXCEPT ![a] = result]
    /\ UNCHANGED <<bpc, bKind, bResults>>

\* the awaited batch resumes the coordinator, which goes on with the results
BatchProceeds ==
    /\ UNCHANGED notBatchVars
    /\ bpc = "awaiting"
    /\ AllSettled(bOutcome)
    /\ bpc' = "proceeded"
    /\ bResults' = bOutcome
    /\ UNCHANGED <<bKind, bOutcome>>

BatchNext ==
    \/ StartBatch
    \/ RequestSettles
    \/ BatchProceeds

SpecBatch == Init /\ [][BatchNext]_vars

----------------------------------------------------------------------------
(* AsterFuturesAPI.getOrderBook(symbol, limit = 5)                           *)

\* the state outside the order book call
notBookVars == <<hedgeVars, threeVars, monitorVars, requestVars, reconcileVars,
                 sizingVars, closeCallVars, batchVars,
    backoffVars,
    marketVars,
    smartVars>>

\* const validLimits = [5, 10, 20, 50, 100, 500, 1000]
validLimits == {5, 10, 20, 50, 100, 500, 1000}

\* the depth limits callers ask for
RequestedLimits ==
    validLimits \cup {-1, 0, 1, 4, 6, 7, 8, 9, 11, 15, 19, 21, 30, 49, 51, 75, 99, 101,
                      250, 499, 501, 900, 999, 1001, 5000}

\* a gateway forwarding the caller's limit as it is
limitAsRequested(limit) == limit

\* const finalLimit = validLimits.includes(limit) ? limit : 5
finalLimit(limit) == IF limit \in validLimits THEN limit ELSE 5

\* getOrderBook is called, with a limit or without one (the parameter then
\* defaults to 5), and sends the depth request
CallGetOrderBook ==
    /\ UNCHANGED notBookVars
    /\ opc = "idle"
    /\ \E client \in Clients, given \in BOOLEAN, limit \in RequestedLimits :
         /\ oClient' = client
         /\ oLimit' = IF given THEN limit ELSE 5
         /\ oSent' = finalLimit(oLimit')
    /\ opc' = "sent"

\* makeRequest returns the depth or throws; getOrderBook passes either on
DepthSettled ==
    /\ UNCHANGED notBookVars
    /\ opc = "sent"
    /\ opc' = "returned"
    /\ UNCHANGED <<oClient, oLimit, oSent>>

BookNext ==
    \/ CallGetOrderBook
    \/ DepthSettled

SpecBook == Init /\ [][BookNext]_vars

----------------------------------------------------------------------------
(* The retry delays of one AsterFuturesAPI.makeRequest call (src/unnamed/part_001) *)

\* the state outside the retry delays
notBackoffVars == <<hedgeVars, threeVars, monitorVars, requestVars, reconcileVars,
                    sizingVars, closeCallVars, batchVars, bookVars,
    marketVars,
    smartVars>>

Min(a, b) == IF a < b THEN a ELSE b

RECURSIVE Pow2(_)
\* Math.pow(2, n)
Pow2(n) == IF n <= 0 THEN 1 ELSE 2 * Pow2(n - 1)

\* Number.isFinite(api.requestRetryDelayMs) ? Math.max(50, api.requestRetryDelayMs) : 800
baseDelayMs(finite, requestRetryDelayMs) ==
    IF finite THEN Max(MinBaseDelay, requestRetryDelayMs) ELSE DefaultBaseDelay

\* a backoff without the upper limit
Uncapped(ms) == ms

\* Math.min(15_000, ms)
Capped(ms) == Min(DelayCap, ms)

\* const delay = Math.min(15_000, baseDelayMs * Math.pow(2, attempt - 1)) + jitter
retryDelay(base, a, jitter) == Capped(base * Pow2(a - 1)) + jitter

\* makeRequest is called and its first attempt fails: attempt = 0, and
\* baseDelayMs is taken from the configuration
CallAndFail ==
    /\ UNCHANGED notBackoffVars
    /\ dpc = "idle"
    /\ \E finite \in BOOLEAN, configured \in ConfiguredDelays :
         dBase' = baseDelayMs(finite, configured)
    /\ dAttempt' = 0
    /\ delays' = <<>>
    /\ dpc' = "failed"

\* the catch block: attempt += 1, then the error is thrown (attempts used up
\* or error not retryable) or the delay is computed and the timer started
CatchAttempt ==
    /\ UNCHANGED notBackoffVars
    /\ dpc = "failed"
    /\ dAttempt' = dAttempt + 1
    /\ \E retryable \in BOOLEAN :
         IF dAttempt' > BackoffRetries \/ ~retryable
         THEN /\ dpc' = "ended"
              /\ UNCHANGED delays
         ELSE /\ dpc' = "delay"
              /\ \E jitter \in Jitters :
                   delays' = Append(delays, [attempt |-> dAttempt', jitter |-> jitter,
                                             delay |-> retryDelay(dBase, dAttempt', jitter)])
    /\ UNCHANGED dBase

\* the timer fired and the next attempt was made: it returns a result or fails
AttemptAfterDelay ==
    /\ UNCHANGED notBackoffVars
    /\ dpc = "delay"
    /\ \E ok \in BOOLEAN : dpc' = IF ok THEN "ended" ELSE "failed"
    /\ UNCHANGED <<dBase, dAttempt, delays>>

BackoffNext ==
    \/ CallAndFail
    \/ CatchAttempt
    \/ AttemptAfterDelay

SpecBackoff == Init /\ [][BackoffNext]_vars

----------------------------------------------------------------------------
(* HedgeTool.loopMarketHedge *)

\* the state outside loopMarketHedge
notMarketVars == <<hedgeVars, threeVars, monitorVars, requestVars, reconcileVars,
                   sizingVars, closeCallVars, batchVars, bookVars, backoffVars,
                   smartVars>>

\* loopMarketHedge is called: the configuration is read and setLeverage awaited
CallLoopMarketHedge ==
    /\ UNCHANGED notMarketVars
    /\ mhpc = "idle"
    /\ \E q \in MarketQuantities : mhQuantity' = q
    /\ mhpc' = "setLeverage"
    /\ UNCHANGED <<mhCycle, mhPos1, mhPos2, longResult, shortResult>>

\* the head of one pass of while (true), up to await account1.getPrice
EnterMarketCycle ==
    /\ mhCycle < MaxMarketCycles
    /\ mhCycle' = mhCycle + 1
    /\ mhpc' = "getPrice"

\* setLeverage returned, or threw and was caught
MarketSetLeverageDone ==
    /\ UNCHANGED notMarketVars
    /\ mhpc = "setLeverage"
    /\ EnterMarketCycle
    /\ UNCHANGED <<mhQuantity, mhPos1, mhPos2, longResult, shortResult>>

\* getPrice returned: both MARKET orders are sent; or it threw
GetPriceDone ==
    /\ UNCHANGED notMarketVars
    /\ mhpc = "getPrice"
    /\ \E ok \in BOOLEAN : mhpc' = IF ok THEN "orders" ELSE "catch"
    /\ UNCHANGED <<mhCycle, mhQuantity, mhPos1, mhPos2, longResult, shortResult>>

\* both MARKET orders settled: a fulfilled order is filled; when one failed
\* the cycle is skipped after 5 s, otherwise the positions are held
MarketOrdersSettled ==
    /\ UNCHANGED notMarketVars
    /\ mhpc = "orders"
    /\ \E r1, r2 \in {"fulfilled", "rejected"} :
         LET orderSuccess == r1 = "fulfilled" /\ r2 = "fulfilled"
             filled1 == IF r1 = "fulfilled" THEN mhPos1 + mhQuantity ELSE mhPos1
             filled2 == IF r2 = "fulfilled" THEN mhPos2 - mhQuantity ELSE mhPos2
         IN /\ longResult' = r1
            /\ shortResult' = r2
            /\ mhPos1' = filled1
            /\ mhPos2' = filled2
            /\ mhpc' = IF orderSuccess THEN "hold" ELSE "skipSleep"
    /\ UNCHANGED <<mhCycle, mhQuantity>>

\* sleep(5000) of a skipped cycle is over: continue
SkipSleepDone ==
    /\ UNCHANGED notMarketVars
    /\ mhpc = "skipSleep"
    /\ EnterMarketCycle
    /\ UNCHANGED <<mhQuantity, mhPos1, mhPos2, longResult, shortResult>>

\* printPositionStatus and sleep(holdMs) are over: both closePosition calls are sent
MarketHoldDone ==
    /\ UNCHANGED notMarketVars
    /\ mhpc = "hold"
    /\ mhpc' = "closePosition"
    /\ UNCHANGED <<mhCycle, mhQuantity, mhPos1, mhPos2, longResult, shortResult>>

\* both closePosition calls settled: a fulfilled close leaves the account flat;
\* the results are logged and the next pass begins
MarketCloseSettled ==
    /\ UNCHANGED notMarketVars
    /\ mhpc = "closePosition"
    /\ \E ok1, ok2 \in BOOLEAN :
         /\ mhPos1' = IF ok1 THEN 0 ELSE mhPos1
         /\ mhPos2' = IF ok2 THEN 0 ELSE mhPos2
    /\ EnterMarketCycle
    /\ UNCHANGED <<mhQuantity, longResult, shortResult>>

\* catch: printPositionStatus and sleep(5000) are over, the next pass begins
MarketCatchDone ==
    /\ UNCHANGED notMarketVars
    /\ mhpc = "catch"
    /\ EnterMarketCycle
    /\ UNCHANGED <<mhQuantity, mhPos1, mhPos2, longResult, shortResult>>

MarketNext ==
    \/ CallLoopMarketHedge
    \/ MarketSetLeverageDone
    \/ GetPriceDone
    \/ MarketOrdersSettled
    \/ SkipSleepDone
    \/ MarketHoldDone
    \/ MarketCloseSettled
    \/ MarketCatchDone

SpecMarket == Init /\ [][MarketNext]_vars

----------------------------------------------------------------------------
(* HedgeTool.smartHedgeOrder *)

\* the state outside smartHedgeOrder
notSmartVars == <<hedgeVars, threeVars, monitorVars, requestVars, reconcileVars,
                  sizingVars, closeCallVars, batchVars, bookVars, backoffVars,
                  marketVars>>

\* smartHedgeOrder is called: price, optional bid and leverage are requested
CallSmartHedgeOrder ==
    /\ UNCHANGED notSmartVars
    /\ shpc = "idle"
    /\ \E q \in SmartQuantities : shQuantity' = q
    /\ shpc' = "prepare"
    /\ UNCHANGED <<shOrder, shResult, shSuccess, shHedged, shLateFill>>

\* getPrice, getBid1Price and setLeverage returned and the LIMIT buy is sent, or
\* one of them threw and the error is thrown on
PrepareDone ==
    /\ UNCHANGED notSmartVars
    /\ shpc = "prepare"
    /\ \E ok \in BOOLEAN : shpc' = IF ok THEN "buyOrder" ELSE "thrown"
    /\ UNCHANGED <<shQuantity, shOrder, shResult, shSuccess, shHedged, shLateFill>>

\* account1.buyOrder returned: the order is open and monitorOrderStatus starts;
\* or the exchange refused it and the error is thrown on
SmartBuyOrderDone ==
    /\ UNCHANGED notSmartVars
    /\ shpc = "buyOrder"
    /\ \E ok \in BOOLEAN :
         IF ok
         THEN /\ shOrder' = [status |-> "NEW", orig |-> shQuantity, exec |-> 0]
              /\ shpc' = "monitorOrderStatus"
         ELSE /\ shpc' = "thrown"
              /\ UNCHANGED shOrder
    /\ UNCHANGED <<shQuantity, shResult, shSuccess, shHedged, shLateFill>>

\* the exchange fills part or all of the open LIMIT order, at any time
SmartExchangeFill ==
    /\ UNCHANGED notSmartVars
    /\ shOrder.status \in OpenStatuses
    /\ \E e \in {shOrder.exec + d : d \in FillSteps} \cup {shOrder.orig} :
         /\ e > shOrder.exec
         /\ e <= shOrder.orig
         /\ shOrder' = [shOrder EXCEPT !.exec = e,
                           !.status = IF e = shOrder.orig THEN "FILLED"
                                      ELSE "PARTIALLY_FILLED"]
         /\ shLateFill' = IF shpc \in {"returned", "thrown"}
                          THEN shLateFill + (e - shOrder.exec) ELSE shLateFill
    /\ UNCHANGED <<shpc, shQuantity, shResult, shSuccess, shHedged>>

\* the exchange ends the open order (expiry, or a cancel from elsewhere)
SmartExchangeEnds ==
    /\ UNCHANGED notSmartVars
    /\ shOrder.status \in OpenStatuses
    /\ \E s \in FailedStatuses : shOrder' = [shOrder EXCEPT !.status = s]
    /\ UNCHANGED <<shpc, shQuantity, shResult, shSuccess, shHedged, shLateFill>>

\* monitorOrderStatus returned: it saw FILLED (the hedge is sent), it saw a
\* failure status, or maxWaitTime went by; if (!monitorResult.success) the
\* call returns success: false and sends nothing more for the order
SmartMonitorDone ==
    /\ UNCHANGED notSmartVars
    /\ shpc = "monitorOrderStatus"
    /\ \/ /\ shOrder.status = "FILLED"
          /\ shResult' = [success |-> TRUE, filled |-> TRUE, timeout |-> FALSE,
                          totalExecuted |-> shOrder.exec]
          /\ shpc' = "sellOrder"
          /\ UNCHANGED <<shOrder, shSuccess>>
       \/ /\ shOrder.status \in FailedStatuses
          /\ shResult' = [success |-> FALSE, filled |-> FALSE, timeout |-> FALSE,
                          totalExecuted |-> 0]
          /\ shpc' = "returned"
          /\ shSuccess' = FALSE
          /\ UNCHANGED shOrder
       \/ /\ shResult' = [success |-> FALSE, filled |-> FALSE, timeout |-> TRUE,
                          totalExecuted |-> 0]
          /\ shpc' = "returned"
          /\ shSuccess' = FALSE
          /\ UNCHANGED shOrder
    /\ UNCHANGED <<shQuantity, shHedged, shLateFill>>

\* account2.sellOrder for the executed quantity returned (success: true) or
\* threw (the error is thrown on)
SmartSellOrderDone ==
    /\ UNCHANGED notSmartVars
    /\ shpc = "sellOrder"
    /\ \E ok \in BOOLEAN :
         IF ok
         THEN /\ shHedged' = shOrder.exec
              /\ shSuccess' = TRUE
              /\ shpc' = "returned"
         ELSE /\ shpc' = "thrown"
              /\ UNCHANGED <<shHedged, shSuccess>>
    /\ UNCHANGED <<shQuantity, shOrder, shResult, shLateFill>>

SmartNext ==
    \/ CallSmartHedgeOrder
    \/ PrepareDone
    \/ SmartBuyOrderDone
    \/ SmartExchangeFill
    \/ SmartExchangeEnds
    \/ SmartMonitorDone
    \/ SmartSellOrderDone

SpecSmart == Init /\ [][SmartNext]_vars

----------------------------------------------------------------------------
(* Claims *)

\* the LIMIT buy orders of account1 (the primary account) placed in this cycle
PrimaryOrders == {i \in 1..Len(orders) : orders[i].acct = 1}

\* quantity executed on the primary account in this cycle
PrimaryExecuted == SumExec(orders, 1)

\* C1: whenever the rehang loop ends because the primary LIMIT order was
\* observed FILLED, the quantity sold on the helper account in this cycle
\* differs from the quantity executed on the primary account by at most 0.001.
C1_HedgedWithinTolerance ==
    [][(pc = "result" /\ monitorResult.success /\ monitorResult.filled /\ pc' = "validate")
         => Abs(helperSold' - SumExec(orders', 1)) <= Tolerance]_vars

\* C2: every LIMIT buy placed on the primary account asks for the cycle
\* target minus what earlier attempts of the cycle have already filled.
C2_OrdersRemainingQuantity ==
    [][(pc = "rehang" /\ pc' = "monitor")
         => orders'[limitOrder'].orig = quantity - PrimaryExecuted]_vars

\* C3: once the rehang loop has been left, the coordinator has sent a cancel
\* for every primary LIMIT order of the cycle that is still open on the
\* exchange (no order is left open without having been cancelled).
C3_NoOpenPrimaryAfterLoop ==
    pc \in {"skip", "validate"} =>
        \A i \in PrimaryOrders : orders[i].status \in OpenStatuses => i \in cancelled

\* C4: when all rehang attempts are used up and part of the target is still
\* unfilled, MARKET orders have been submitted on both accounts to force-close
\* the residual before the cycle is given up.
C4_ForceCloseAfterExhaustion ==
    (pc = "skip" /\ rehangAttempts = MaxRehangAttempts /\ quantity - PrimaryExecuted > 0)
        => mktOrders = {1, 2}

\* C5: scenario: target 0.005, the first order fills 0.003 and times out and
\* is cancelled, one rehang, the rehung order fills; every helper order
\* succeeds. Then at the end of the rehang loop the helper has sold 0.005.
C5_ScenarioHedgedTotal ==
    (/\ pc = "validate"
     /\ quantity = 50
     /\ Len(orders) = 2
     /\ orders[1].status = "CANCELED" /\ orders[1].exec = 30
     /\ orders[2].status = "FILLED"
     /\ ~hedgeFailed)
        => helperSold = 50

\* C6: however many SIGINT signals arrive, the handler starts at most one
\* cancel sequence and at most one unwind: a repeated signal starts nothing.
C6_SingleShutdownSequence == handlerCancels <= 1 /\ handlerUnwinds <= 1

\* C6 witness: a second signal has arrived while the first shutdown is underway
C6_SecondSignalDuringShutdown ==
    signals >= 2 /\ hpc # "idle" /\ ~exited /\ handlerCancels = 1

\* the cycle loop is closing positions: step 9 (closePosition calls and the
\* following ensureNoPositionsAndOrders) or the cleanup after a failed monitor
CycleUnwinding == tpc \in {"closePosition", "ensureNoPositions", "cleanup"}

\* the handler's closeAllPositions is in progress
HandlerUnwinding == hpc \in {"getPositions", "closePosition"}

\* C7: the cycle loop and the shutdown handler never close positions at the
\* same time.
C7_NoConcurrentUnwind == ~(CycleUnwinding /\ HandlerUnwinding)

\* C8: the process never exits while step 9 of the cycle (its unwind) is
\* still in progress.
C8_NoExitDuringUnwind == exited => tpc \notin {"closePosition", "ensureNoPositions"}

\* C9: no request of the shutdown handler is in flight while the request or
\* sleep the cycle was suspended at when the signal arrived is still pending.
C9_ShutdownAfterInFlightStep == hpc # "idle" => ~awaitPending

\* C10: when smartClosePositions has returned, a closing order was submitted
\* for every account that held a position when it was entered.
C10_EveryHeldAccountClosed == pc = "cooldown" => heldAtClose \subseteq closeIssued

\* C11: a monitoring call returns no later than maxWaitTime after it started.
C11_ReturnsWithinMaxWaitTime == mpc = "done" => clock <= MaxWaitTime

\* C12: monitorOrderStatus issues no getOrderStatus once maxWaitTime has
\* elapsed, and when it returns without having seen a terminal status it
\* returns the timeout result, after the deadline.
C12_NoPollAfterDeadline ==
    mfn = "monitorOrderStatus" =>
        /\ ~pollIssuedLate
        /\ (mpc = "done" /\ ~sawFilled /\ ~sawFailed)
              => (mResult.timeout /\ ~mResult.filled /\ clock >= MaxWaitTime)

\* C12 witness: the deadline passed while a poll was in flight and the call
\* then returned the timeout result
C12_TimedOutAfterSlowPoll ==
    mfn = "monitorOrderStatus" /\ mpc = "done" /\ mResult.timeout /\ clock > MaxWaitTime

\* C13: monitorOrderStatus polls only while no terminal status was seen; it
\* returns filled exactly when FILLED was seen, returns filled = false without
\* the timeout flag as soon as CANCELED, REJECTED or EXPIRED was seen, and a
\* failed poll never ends the call: it ends on a terminal status or after the
\* deadline only.
C13_EndsOnTerminalOrDeadline ==
    mfn = "monitorOrderStatus" =>
        /\ ~polledAfterTerminal
        /\ (sawFilled \/ sawFailed) => mpc = "done"
        /\ mpc = "done" =>
              /\ mResult.filled = sawFilled
              /\ sawFailed => (~mResult.filled /\ ~mResult.timeout)
              /\ sawFilled \/ sawFailed \/ clock >= MaxWaitTime

\* C13 witness: a poll failed, monitoring went on and ended on a failure status
C13_FailedStatusAfterPollError ==
    mfn = "monitorOrderStatus" /\ mpc = "done" /\ pollErrors /\ sawFailed
        /\ ~mResult.timeout

\* C14: the cumulative totals passed to onPartialFill never decrease and the
\* deltas passed sum to the last cumulative total passed.
C14_DeltasSumToCumulative ==
    mfn = "monitorOrderWithRealTimeExecution" =>
        (~cumDecreased /\ sumDeltas = cumDelivered)

\* C14 witness: the callback was invoked twice in one call
C14_TwoIncrementsDelivered ==
    mfn = "monitorOrderWithRealTimeExecution" /\ deliveries = 2 /\ cumDelivered = 20

\* C15: when onPartialFill has thrown, the call still ends only on a terminal
\* status or the deadline, and totalExecuted and the flags of the result are
\* what the polled answers alone determine.
C15_CallbackErrorKeepsResult ==
    (mfn = "monitorOrderWithRealTimeExecution" /\ cbThrew /\ ~cbInFlight) =>
        /\ mTotalExecuted = maxPolled
        /\ mpc = "done" =>
              /\ mResult.totalExecuted = maxPolled
              /\ mResult.filled = sawFilled
              /\ mResult.timeout = (~sawFilled /\ ~sawFailed)
              /\ sawFilled \/ sawFailed \/ clock >= MaxWaitTime

\* C15 witness: the callback threw and the call later returned the filled result
C15_FilledAfterCallbackError ==
    /\ mfn = "monitorOrderWithRealTimeExecution" /\ cbThrew /\ mpc = "done"
    /\ mResult.filled /\ mResult.totalExecuted = 20 /\ deliveries = 2

\* the LIMIT buy orders of account2 placed by the closing loop of this cycle
CloseOrders == {i \in 1..Len(orders) : orders[i].acct = 2}

\* C16: the opening loop of loopHedge and the closing loop of
\* smartClosePositions place at most maxRehangAttempts LIMIT orders each, and
\* each loop, once entered, is left again.
C16_RehangLoopsTerminate ==
    /\ [](/\ Cardinality(PrimaryOrders) <= MaxRehangAttempts
          /\ Cardinality(CloseOrders) <= MaxCloseRehang)
    /\ (pc \in {"rehang", "monitor", "result"}) ~> (pc \in {"validate", "skip", "catch"})
    /\ (pc \in {"closeLoop", "closeMonitor", "closeResult"}) ~> (pc = "cooldown")

\* C16 witness: both loops used up all their attempts in one cycle
C16_BothLoopsExhausted ==
    /\ pc = "cooldown"
    /\ Cardinality(PrimaryOrders) = MaxRehangAttempts
    /\ Cardinality(CloseOrders) = MaxCloseRehang
    /\ \E i \in CloseOrders : orders[i].status # "FILLED"

\* C17: while every answer is an HTTP 500, makeRequest sends at most
\* maxRetries + 1 requests; when it throws it has sent exactly maxRetries + 1,
\* slept maxRetries retry delays, throws the HTTP 500 error and has invoked
\* sendTelegramAlert exactly once (and never before it throws).
C17_SustainedServerError ==
    (all500 /\ attempt > 0) =>
        /\ requestsSent <= RequestRetries + 1
        /\ rpc = "thrown" => /\ requestsSent = RequestRetries + 1
                             /\ retryDelays = RequestRetries
                             /\ alerts = 1
                             /\ lastError.status = 500
        /\ rpc # "thrown" => alerts = 0

\* C17 witness: a call that got HTTP 500 on every attempt has thrown
C17_ThrownAfterSustained500 ==
    rpc = "thrown" /\ all500 /\ attempt = RequestRetries + 1 /\ alerts = 1

\* C18: when the first attempt fails with an HTTP 4xx other than 429 that
\* carries no timestamp-skew code, makeRequest throws at once, having sent one
\* request.
C18_ClientErrorNotRetried ==
    [][(/\ rpc = "fetch" /\ attempt = 0 /\ attempt' = 1
        /\ lastError'.status \in 400..499 /\ lastError'.status # 429
        /\ lastError'.msg # "-1021")
          => (rpc' = "thrown" /\ requestsSent' = 1)]_vars

\* C19: between an attempt that failed with a timestamp-skew error and the
\* sending of the retry, syncTime was called exactly once.
C19_OneResyncBeforeRetry == syncsBeforeRetry \in {-1, 1}

\* C20: an authenticated request sent after the proactive syncTime succeeded
\* carries a timestamp computed with the refreshed offset.
C20_TimestampUsesRefreshedOffset ==
    (rpc = "fetch" /\ needAuth /\ syncedBeforeSend) => stampOffset = timeOffsetMs

\* the difference of the magnitudes the call found, and the account that
\* holds the smaller one
FoundDiff == Abs(Abs(vPos1Amount) - Abs(vPos2Amount))
UnderHedged == IF Abs(vPos1Amount) > Abs(vPos2Amount) THEN 2 ELSE 1

\* C21: a call of the reconciler that found a difference above 0.001 submits
\* exactly one MARKET order, on the account holding the smaller position, for
\* exactly that difference, and queries the positions once more; it never
\* submits a second order, and it submits none when the difference is at
\* most 0.001.
C21_OneCorrectiveOrder ==
    /\ Len(fixOrders) <= 1
    /\ vRequeries <= 1
    /\ fixOrders # <<>> =>
          /\ FoundDiff > Tolerance
          /\ fixOrders[1].type = "MARKET"
          /\ fixOrders[1].acct = UnderHedged
          /\ fixOrders[1].qty = FoundDiff
    /\ (vpc = "done" /\ vQueried) =>
          IF FoundDiff > Tolerance
          THEN Len(fixOrders) = 1 /\ vRequeries = 1
          ELSE fixOrders = <<>>

\* the scenario of C22: the call found +0.004 on account1 and -0.0035 on account2
ScenarioFound == vQueried /\ vPos1Amount = 40 /\ vPos2Amount = -35

\* C22 as stated: given positions (+0.004, -0.0035) and tolerance 0.001 the
\* reconciler submits a corrective order of 0.0005 on the account holding
\* less, and its re-check finds the two positions converged.
C22_ScenarioCorrected ==
    (vpc = "done" /\ ScenarioFound) =>
        /\ Len(fixOrders) = 1
        /\ fixOrders[1].acct = 2
        /\ fixOrders[1].qty = 5
        /\ vRequeries = 1

\* C22 amended: given positions (+0.004, -0.0035) and tolerance 0.001 the
\* difference 0.0005 does not exceed the tolerance, so the reconciler submits
\* no corrective order, leaves both positions as they are and does not query
\* them again.
C22_ScenarioWithinTolerance ==
    ScenarioFound =>
        /\ fixOrders = <<>>
        /\ vRequeries = 0
        /\ xPos1 = 40 /\ xPos2 = -35
        /\ vpc = "done"

\* C22 witness: the call found the scenario's positions and returned
C22_ScenarioReturned == vpc = "done" /\ ScenarioFound

\* C23: the two helper shares returned by generateQuantityDistribution add up
\* exactly to the returned mainQuantity, and each share is at least 0.001.
C23_SharesSumToTarget ==
    spc = "split" =>
        /\ quantities[1] + quantities[2] = mainQuantity
        /\ quantities[1] * 1000 >= MinShare
        /\ quantities[2] * 1000 >= MinShare

\* C24: whenever a reference price is configured, the quantity returned by
\* generateRandomQuantity times that price is at most maxPositionValue.
C24_WithinMaxPositionValue ==
    (spc # "idle" /\ sPrice > 0) => mainQuantity * sPrice <= sMaxValue

\* C25: a closePosition call whose close order is answered with a rejected
\* reduceOnly order returns null and throws nothing.
C25_RejectedReduceOnlyIsNoOp == kError # "reduceOnlyRejected"

\* the amount closePosition acts on
HeldAmount == FirstNonZero(kPositions)

\* what a finished call placed is one reduce-only MARKET order against the
\* held amount, or nothing when the account is flat
ClosesHeldAmount(expected) ==
    /\ Len(kOrders) <= 1
    /\ (kpc \in {"placeOrder", "returned"} /\ HeldAmount = 0) => kOrders = <<>>
    /\ (kpc \in {"placeOrder", "returned"} /\ HeldAmount # 0) =>
          /\ Len(kOrders) = 1
          /\ kOrders[1].type = "MARKET"
          /\ kOrders[1].reduceOnly
          /\ kOrders[1].side = (IF HeldAmount > 0 THEN "SELL" ELSE "BUY")
          /\ kOrders[1].quantity = expected

\* C26 as stated: no order when the position amount is zero; otherwise exactly
\* one reduce-only MARKET order, SELL for a positive and BUY for a negative
\* amount, whose quantity is the absolute held amount, or the override when
\* one is given.
C26_ClosesExactAmount ==
    ClosesHeldAmount(IF kQuantity # 0 THEN kQuantity ELSE Abs(HeldAmount))

\* C26 amended: as stated, except that the client of part_001 sends the
\* quantity (held amount or override) rounded to three decimals.
C26_ClosesRoundedAmount ==
    ClosesHeldAmount(LET q == IF kQuantity # 0 THEN kQuantity ELSE Abs(HeldAmount)
                     IN IF kClient = "part_001" THEN formatQuantity(q) ELSE q)

\* C26 witness: a short position was closed with a BUY order that was answered
C26_ShortClosed ==
    kpc = "returned" /\ kResult = "order" /\ HeldAmount < 0 /\ kOrders # <<>>

\* C27: an error raised inside a cycle is caught; after the backoff sleep the
\* next pass of the loop begins, unless a shutdown signal ended the process
\* meanwhile; the process is only ever ended by the signal handler.
C27_CycleFailureOnlyAbortsCycle ==
    /\ [][(~exited /\ exited') => hpc # "idle"]_vars
    /\ \A n \in 1..(MaxLoopPasses - 1) :
         (tpc = "catchSleep" /\ tcycle = n) ~> (tcycle = n + 1 \/ exited)

\* C27 witness: a cycle failed and the following cycle is under way, no signal
\* having arrived
C27_NextCycleAfterFailure == resumed /\ tcycle = 2 /\ signals = 0 /\ ~exited

\* C28: in a fan-out batch the request of every account is issued, a rejected
\* request leaves the others pending until they settle by themselves, and the
\* coordinator goes on only when the outcome of every account is known.
C28_BatchAwaitsEveryAccount ==
    /\ [](bpc = "proceeded" =>
            /\ \A a \in 1..3 : bResults[a] \in {"none", "fulfilled", "rejected"}
            /\ bResults = bOutcome)
    /\ [][\A a \in 1..3 : bOutcome[a] = "pending" =>
                              bOutcome'[a] \in {"pending", "fulfilled", "rejected"}]_vars

\* C28 witness: one account's request failed, another's was answered after
\* that, and the coordinator went on with both outcomes
C28_ProceededAfterFailure ==
    /\ bpc = "proceeded"
    /\ \E a, b \in 1..3 : bResults[a] = "rejected" /\ bResults[b] = "fulfilled"

\* the distance between two limits
Distance(a, b) == IF a >= b THEN a - b ELSE b - a

\* the supported limits nearest to a requested one
NearestLimits(limit) ==
    {v \in validLimits : \A w \in validLimits : Distance(v, limit) <= Distance(w, limit)}

\* C29: the depth request carries the supported limit nearest to the requested
\* one, and the smallest supported limit when the requested one is not a
\* positive number.
C29_SnappedToNearestLimit ==
    opc # "idle" =>
        IF oLimit > 0 THEN oSent \in NearestLimits(oLimit) ELSE oSent = 5

\* C29 amended: the depth request carries the requested limit when it is one of
\* the supported values and the smallest supported value, 5, in every other
\* case; it never carries an unsupported limit.
C29_SupportedOrSmallestLimit ==
    opc # "idle" =>
        /\ oSent \in validLimits
        /\ oLimit \in validLimits => oSent = oLimit
        /\ oLimit \notin validLimits => (oSent = 5 /\ \A v \in validLimits : oSent <= v)

\* C29 witness: a depth of 900 was asked for and the request went out with 5
C29_UnsupportedLimitSent == opc = "returned" /\ oLimit = 900 /\ oSent = 5

\* C30: while an onPartialFill invocation has not settled, the streaming call
\* neither polls the primary order again nor returns; whenever it polls or
\* returns, every invocation made so far (and the helper sell in it) has settled.
C30_CallbackAwaitedBeforeNextPoll ==
    mfn = "monitorOrderWithRealTimeExecution" =>
        /\ cbInFlight => mpc = "callback"
        /\ mpc \in {"loop", "poll", "done"} => cbSettled = deliveries

\* C30 witness: two increments were handed to the callback, both invocations
\* settled without an error, and the call then returned the filled result
C30_FilledAfterCallbacksSettled ==
    /\ mfn = "monitorOrderWithRealTimeExecution" /\ mpc = "done" /\ mResult.filled
    /\ deliveries = 2 /\ cbSettled = 2 /\ ~cbThrew

\* C31: the delay before retry k is min(15000, baseDelayMs * 2^(k-1)) plus a
\* jitter between 0 and 200 ms; it never exceeds 15200 ms, and the part
\* without the jitter never decreases from one retry to the next.
C31_BackoffDelay ==
    /\ Len(delays) <= BackoffRetries
    /\ \A k \in 1..Len(delays) :
         /\ delays[k].attempt = k
         /\ delays[k].jitter \in 0..200
         /\ delays[k].delay = Min(15000, dBase * Pow2(k - 1)) + delays[k].jitter
         /\ delays[k].delay <= 15200
         /\ k > 1 => delays[k - 1].delay - delays[k - 1].jitter
                        <= delays[k].delay - delays[k].jitter

\* C31 witness: with the default base delay of 800 ms the sixth retry was
\* delayed by the capped 15000 ms plus jitter, after 12800 ms before the fifth
C31_SixthDelayCapped ==
    /\ dBase = 800 /\ Len(delays) = 6
    /\ delays[5].delay - delays[5].jitter = 12800
    /\ delays[6].delay = 15199

\* C32: whatever the outcomes of its requests, one makeRequest call sends at
\* most maxRetries + 1 requests; it has invoked sendTelegramAlert exactly once
\* when it has thrown and never while it runs or when it has returned a result.
C32_BoundedRequestsOneAlert ==
    /\ requestsSent <= RequestRetries + 1
    /\ rpc = "thrown" => alerts = 1
    /\ rpc \notin {"thrown", "idle"} => alerts = 0

\* C32 witness: a call whose attempts failed in different ways used all its
\* attempts, raised one alert and threw
C32_ThrownAfterMixedErrors ==
    /\ rpc = "thrown" /\ ~all500 /\ requestsSent = RequestRetries + 1 /\ alerts = 1
    /\ lastError.status = 0

\* C33: once a SIGINT has set exitRequested, the cycle loop starts no new
\* cycle and sends no new primary LIMIT order.
C33_NoNewOrderAfterExitRequested ==
    [][exitRequested => /\ tcycle' = tcycle
                        /\ tpc' = "buyOrder" => tpc = "buyOrder"]_vars

\* step 9 of the cycle, its own unwind, is in progress
CycleOwnUnwind == tpc \in {"closePosition", "ensureNoPositions"}

\* C34: isClosing is true exactly while step 9 of the cycle or the handler's
\* closeAllPositions is in progress; the cycle loop never clears it while the
\* handler's unwind is running, and it is cleared when step 9 ends, with or
\* without an error.
C34_IsClosingTracksUnwind ==
    /\ [](isClosing <=> (CycleOwnUnwind \/ HandlerUnwinding))
    /\ [][(HandlerUnwinding /\ HandlerUnwinding' /\ isClosing) => isClosing']_vars
    /\ [][(CycleOwnUnwind /\ ~CycleOwnUnwind') => ~isClosing']_vars

\* C35: loopHedge leaves api.quantity alone: at the start of every cycle it
\* still has the value it had when loopHedge was called.
C35_ConfigQuantityUnchanged ==
    /\ [](pc = "cycleStart" => apiQuantity = baseQuantity)
    /\ [][apiQuantity' = apiQuantity]_vars

\* smartClosePositions is running
Closing == pc \in {"closeLoop", "closeMonitor", "closeResult", "closeFinal"}

\* C36: smartClosePositions never closes more than an account holds: no fill
\* of its LIMIT orders and no MARKET order it submits takes account1 below
\* zero or account2 above zero, whenever the exchange fills the LIMIT order.
C36_NeverClosesMoreThanHeld ==
    [][(Closing /\ pos1 >= 0 /\ pos2 <= 0) => (pos1' >= 0 /\ pos2' <= 0)]_vars

\* C37: when exactly one of the two MARKET orders of a loopMarketHedge cycle
\* was rejected, the two accounts hold positions of equal magnitude when the
\* next cycle starts.
C37_OneLegRejectedIsUnwound ==
    [][(/\ mhpc = "skipSleep" /\ mhpc' = "getPrice"
        /\ longResult # shortResult)
          => Abs(mhPos1') = Abs(mhPos2')]_vars

\* C38: when smartHedgeOrder has returned success = false after a monitoring
\* timeout, its primary LIMIT order is no longer open, and nothing of it is
\* filled after the return.
C38_NoOpenOrderAfterTimeout ==
    (shpc = "returned" /\ ~shSuccess /\ shResult.timeout) =>
        (shOrder.status \notin OpenStatuses /\ shLateFill = 0)

====
